---- MODULE Spec2Model ----
(***************************************************************************)
(* Memory trace session of alloc-test (src/src/alloc/measure.rs, and the  *)
(* identical copy in src/src/lib.rs): the process-wide flag TRACE_ALLOCS, *)
(* the accumulator ALLOC_STATS, trace_allocs and the allocator hooks of   *)
(* MemoryTracingHooks.                                                     *)
(*                                                                         *)
(* Spec    trace_allocs statement by statement, every hook callback one   *)
(*         atomic step.                                                    *)
(* SpecRW  trace_allocs statement by statement, on_alloc at the           *)
(*         granularity of the individual loads and stores of the          *)
(*         unsynchronised `static mut ALLOC_STATS`.                        *)
(*                                                                         *)
(* Thresholds and the regression check (src/src/threshold.rs,             *)
(* src/src/alloc/compare.rs):                                              *)
(*                                                                         *)
(* SpecCmp   Threshold<usize>::check and AllocThresholds::check applied   *)
(*           to drawn thresholds, values and baselines.                    *)
(* SpecPath  the baseline paths check_threshold_with_args computes.       *)
(* SpecIO    check_threshold, check_threshold_with_str,                   *)
(*           check_threshold_with_io, check_threshold_with_args and       *)
(*           mem_bench (src/src/benchmark.rs) on a                        *)
(*           drawn file system.                                            *)
(*                                                                         *)
(* The allocator wrapper (src/src/alloc/allocator.rs):                     *)
(*                                                                         *)
(* SpecAlloc   the GlobalAlloc methods of TracingAllocator, the wrapped    *)
(*             call and the hook of each, inside and outside a session.    *)
(* SpecRealloc one on_realloc call, a step per load of TRACE_ALLOCS,       *)
(*             interleaved with the other threads' trace_allocs.           *)
(* SpecNested  Spec with closures that call trace_allocs themselves.       *)
(*                                                                         *)
(* Timing statistics (src/src/perf/measure.rs):                            *)
(*                                                                         *)
(* SpecBench   bench, bench_iters and bench_internal, iteration by         *)
(*             iteration.                                                  *)
(* SpecStats   Stats::update on drawn samples and the conversion of a      *)
(*             Stats into a PerfStats.                                     *)
(***************************************************************************)
EXTENDS Integers, Naturals, Sequences, FiniteSets, TLC

\* ------------------------------------------------------------------ bounds
\* number of threads of the process
NumThreads == 2
\* number of hook callbacks that find the session active, per behaviour
MaxHooks == 3
\* width of usize in bits
UsizeBits == 3
\* number of on_alloc calls per behaviour of SpecRW
MaxCalls == 2
\* number of hook events the event log keeps before it only says "more"
LogLen == 2

Threads == 1..NumThreads
UsizeMod == 2^UsizeBits
Usize == 0..(UsizeMod - 1)
\* isize::MAX, the largest size a Layout carries
IsizeMax == 2^(UsizeBits - 1) - 1
\* the sizes the allocator passes to the hooks: the smallest and the largest
\* size of a non-empty Layout
Sizes == {1, IsizeMax}

\* ------------------------------------------------------- usize arithmetic
\* `+=` on usize with overflow checks off (release profile)
WrappingAdd(a, b) == (a + b) % UsizeMod

\* `+=` on usize with overflow checks on (debug profile) panics here
AddOverflows(a, b) == a + b >= UsizeMod

saturating_sub(a, b) == IF b > a THEN 0 ELSE a - b

\* ----------------------------------------------------------------- state
VARIABLES
    TRACE_ALLOCS,   \* static AtomicBool
    ALLOC_STATS,    \* static mut MemoryStats
    pc,             \* position of each thread in trace_allocs
    stats,          \* per thread: the local `stats` of trace_allocs
    recorded,       \* history: the hook callbacks that wrote into ALLOC_STATS
                    \* since it was last replaced
    stats_events,   \* history, per thread: the callbacks behind its local `stats`
    hooks,          \* history: number of callbacks that found TRACE_ALLOCS true
    skipped,        \* history: some callback has found TRACE_ALLOCS false
    aborted,        \* the process died on an arithmetic-overflow panic in a hook
    hpc,            \* SpecRW: position of each thread inside on_alloc
    hsize,          \* SpecRW: the `size` argument of the running on_alloc
    reg,            \* SpecRW: the value loaded by the running on_alloc
    calls,          \* history of SpecRW: on_alloc calls started, those returned
                    \* in the open window and their bytes, and whether every
                    \* call so far ran between an acquisition and its mem::replace
    overflow_checks, \* the build profile: usize `+` panics on overflow (debug)
                    \* or wraps (release)
    threshold,      \* the `self` of a threshold check: a Threshold<usize> or
                    \* an AllocThresholds
    value,          \* the measurement handed to the check
    ref_value,      \* the baseline handed to the check
    outcome,        \* what the call under study returned, NotRun before it
    argv,           \* the command line of the test binary, as parse_args reads it
    fs,             \* the file system: per baseline directory, the directory
                    \* and the baseline file of the measurement in it
    f_calls,        \* history: number of times the measured closure has run
    baseline,       \* the local `baseline` of check_threshold_with_args
    call,           \* history: the orchestration function that was called and
                    \* its arguments
    baselines,      \* history: the (id, baseline) pairs of the calls so far
    alloc_call,     \* history: the last call of a GlobalAlloc method of
                    \* TracingAllocator: its arguments, the calls it made to the
                    \* wrapped allocator and to the hooks, in order, and what it
                    \* returned
    realloc_call,   \* the on_realloc call under study: its position, its sizes
                    \* and, as history, which of its updates were recorded
    bench,          \* the running bench_internal call: iters, wu_cd_iters, i
    perf,           \* the Stats accumulator `stats` of bench_internal
    fed             \* history: the samples handed to Stats::update, in order

vars == <<TRACE_ALLOCS, ALLOC_STATS, pc, stats, recorded, stats_events, hooks,
          skipped, aborted, hpc, hsize, reg, calls,
          overflow_checks, threshold, value, ref_value, outcome,
          argv, fs, f_calls, baseline, call, baselines,
          alloc_call, realloc_call, bench, perf, fed>>

\* the state of the memory trace session
sessionvars == <<TRACE_ALLOCS, ALLOC_STATS, pc, stats, recorded, stats_events,
                 hooks, skipped, aborted, hpc, hsize, reg, calls>>

\* the state of the threshold checks and of the regression-check orchestration
iovars == <<argv, fs, f_calls, baseline, call, baselines>>

\* the state of the timing benchmark
perfvars == <<bench, perf, fed>>

\* what a hook callback of the session leaves alone, but for the allocator
\* call it is part of
checkvars == <<overflow_checks, threshold, value, ref_value, outcome, iovars,
               realloc_call, perfvars>>

benchvars == <<checkvars, alloc_call>>

\* the state of the allocator wrapper, of on_realloc and of the timing benchmark
measurevars == <<alloc_call, realloc_call, perfvars>>

rwvars == <<hpc, hsize, reg, calls>>

hookregs == <<hpc, hsize, reg>>

MemoryStats == [current : Usize, peak : Usize, total_size : Usize,
                total_num : Usize, reallocs : Usize]

\* MemoryStats::default()
DefaultStats == [current |-> 0, peak |-> 0, total_size |-> 0,
                 total_num |-> 0, reallocs |-> 0]

\* ------------------------------------------------------------ hook bodies
\* Each operator maps the accumulator before the callback to the accumulator
\* after it; `flag` is the value the callback loads from TRACE_ALLOCS.

on_alloc_NoPeak(st, flag, size) ==
    IF flag
    THEN [st EXCEPT !.current = WrappingAdd(st.current, size),
                    !.total_size = WrappingAdd(st.total_size, size),
                    !.total_num = WrappingAdd(st.total_num, 1)]
    ELSE st

on_alloc_NoFlag(st, flag, size) ==
    LET cur == WrappingAdd(st.current, size)
    IN [current |-> cur,
        peak |-> IF cur > st.peak THEN cur ELSE st.peak,
        total_size |-> WrappingAdd(st.total_size, size),
        total_num |-> WrappingAdd(st.total_num, 1),
        reallocs |-> st.reallocs]

on_alloc_SizeAsCount(st, flag, size) ==
    IF flag
    THEN LET cur == WrappingAdd(st.current, size)
         IN [current |-> cur,
             peak |-> IF cur > st.peak THEN cur ELSE st.peak,
             total_size |-> WrappingAdd(st.total_size, 1),
             total_num |-> WrappingAdd(st.total_num, 1),
             reallocs |-> st.reallocs]
    ELSE st

on_alloc(st, flag, size) ==
    IF flag
    THEN LET cur == WrappingAdd(st.current, size)
         IN [current |-> cur,
             peak |-> IF cur > st.peak THEN cur ELSE st.peak,
             total_size |-> WrappingAdd(st.total_size, size),
             total_num |-> WrappingAdd(st.total_num, 1),
             reallocs |-> st.reallocs]
    ELSE st

on_dealloc(st, flag, size) ==
    IF flag
    THEN [st EXCEPT !.current = saturating_sub(st.current, size)]
    ELSE st

on_alloc_zeroed(st, flag, size) == on_alloc(st, flag, size)

on_realloc_NoDealloc(st, flag, old_size, new_size) ==
    LET counted == IF flag
                   THEN [st EXCEPT !.reallocs = WrappingAdd(st.reallocs, 1)]
                   ELSE st
    IN on_alloc(counted, flag, new_size)

on_realloc(st, flag, old_size, new_size) ==
    LET counted == IF flag
                   THEN [st EXCEPT !.reallocs = WrappingAdd(st.reallocs, 1)]
                   ELSE st
    IN on_alloc(on_dealloc(counted, flag, old_size), flag, new_size)

\* the additions of on_alloc that do not fit usize
AllocOverflows(st, size) ==
    \/ AddOverflows(st.current, size)
    \/ AddOverflows(st.total_size, size)
    \/ AddOverflows(st.total_num, 1)

ReallocOverflows(st, old_size, new_size) ==
    \/ AddOverflows(st.reallocs, 1)
    \/ AllocOverflows(on_dealloc(st, TRUE, old_size), new_size)

Event(op, old_size, size) == [op |-> op, old_size |-> old_size, size |-> size]

\* the event log: the hook events in order, while there are at most LogLen
Overfull == <<Event("more", 0, 0)>>

Log(log, ev) ==
    IF log = Overfull \/ Len(log) >= LogLen THEN Overfull ELSE Append(log, ev)

\* threads that may run allocator calls: outside trace_allocs or inside the
\* closure
Allocating == {"idle", "closure"}

\* ------------------------------------------------ Threshold<usize>::check
\* src/src/threshold.rs (and the copy `Limit` in src/src/lib.rs, mod cmp).
\* A Threshold is None, Cap(cap) or Ratio(ratio); a Ratio<usize> is a pair
\* numer/denom.
None == [kind |-> "None"]

Cap(cap) == [kind |-> "Cap", cap |-> cap]

RECURSIVE gcd(_, _)
gcd(a, b) == IF b = 0 THEN a ELSE gcd(b, a % b)

\* Ratio::new(numer, denom) for denom # 0: the fraction in lowest terms
\* (Ratio::new panics with "denominator == 0" otherwise)
RatioNew(numer, denom) ==
    IF numer = 0
    THEN [numer |-> 0, denom |-> 1]
    ELSE [numer |-> numer \div gcd(numer, denom),
          denom |-> denom \div gcd(numer, denom)]

\* Threshold::ratio(numer, denom)
ratio(numer, denom) == [kind |-> "Ratio", ratio |-> RatioNew(numer, denom)]

\* Ordering: Less, Equal, Greater; reverse() is the negation
Less == -1

Equal == 0

Greater == 1

cmp(a, b) == IF a < b THEN Less ELSE IF a = b THEN Equal ELSE Greater

\* <Ratio<usize> as Ord>::cmp: no multiplication, so nothing overflows; equal
\* denominators compare by numerator, equal numerators inversely by
\* denominator, otherwise the integer parts and then the reciprocals of the
\* fractional parts, reversed
RECURSIVE ratio_cmp(_, _)
ratio_cmp(a, b) ==
    IF a.denom = b.denom
    THEN cmp(a.numer, b.numer)
    ELSE IF a.numer = b.numer
    THEN IF a.numer = 0 THEN Equal ELSE 0 - cmp(a.denom, b.denom)
    ELSE LET a_int == a.numer \div a.denom
             a_rem == a.numer % a.denom
             b_int == b.numer \div b.denom
             b_rem == b.numer % b.denom
         IN IF a_int # b_int
            THEN cmp(a_int, b_int)
            ELSE IF a_rem = 0 /\ b_rem = 0 THEN Equal
            ELSE IF a_rem = 0 THEN Less
            ELSE IF b_rem = 0 THEN Greater
            ELSE 0 - ratio_cmp([numer |-> a.denom, denom |-> a_rem],
                               [numer |-> b.denom, denom |-> b_rem])

check_cap_Strict(cap, v, r) == v < WrappingAdd(r, cap)

\* value <= ref_value + cap, the sum in usize with overflow checks off
check_cap(cap, v, r) == v <= WrappingAdd(r, cap)

\* with overflow checks on, the sum panics when it does not fit usize
check_cap_panics(cap, v, r) == AddOverflows(r, cap)

check_ratio_Truncated(rat, v, r) ==
    \/ v <= r
    \/ (v - r) \div r <= rat.numer \div rat.denom

\* value <= ref_value || Ratio::new(value - ref_value, ref_value) <= *ratio
check_ratio(rat, v, r) ==
    \/ v <= r
    \/ ratio_cmp(RatioNew(v - r, r), rat) # Greater

\* Ratio::new(value - ref_value, 0) panics
check_ratio_panics(rat, v, r) == v > r /\ r = 0

\* results: Ok(()), Err(ThresholdError { limit, value, ref_value }), and the
\* call that does not return because it panicked
Ok == [kind |-> "Ok"]

Panicked == [kind |-> "panic"]

ThresholdError(limit, v, r) ==
    [kind |-> "Err", limit |-> limit, value |-> v, ref_value |-> r]

check_NoneAsCap(self, v, r, checks) ==
    IF self.kind = "Ratio"
    THEN IF check_ratio_panics(self.ratio, v, r) THEN Panicked
         ELSE IF ~check_ratio(self.ratio, v, r) THEN ThresholdError(self, v, r)
         ELSE Ok
    ELSE LET cap == IF self.kind = "Cap" THEN self.cap ELSE 0
         IN IF checks /\ check_cap_panics(cap, v, r) THEN Panicked
            ELSE IF ~check_cap(cap, v, r) THEN ThresholdError(self, v, r)
            ELSE Ok

\* Threshold::check(&self, value, ref_value) under the build profile `checks`
check(self, v, r, checks) ==
    IF self.kind = "Cap"
    THEN IF checks /\ check_cap_panics(self.cap, v, r) THEN Panicked
         ELSE IF ~check_cap(self.cap, v, r) THEN ThresholdError(self, v, r)
         ELSE Ok
    ELSE IF self.kind = "Ratio"
    THEN IF check_ratio_panics(self.ratio, v, r) THEN Panicked
         ELSE IF ~check_ratio(self.ratio, v, r) THEN ThresholdError(self, v, r)
         ELSE Ok
    ELSE Ok

\* the thresholds a caller can build: None, cap(c), ratio(numer, denom)
Thresholds ==
    {None} \cup {Cap(c) : c \in Usize}
           \cup {ratio(n, d) : n \in Usize, d \in Usize \ {0}}

\* no call has returned yet
NotRun == [kind |-> "NotRun"]

\* no call has been made
NoCall == [fn |-> "none"]

\* ------------------------------------------------------------------- Init
InitSession ==
    /\ TRACE_ALLOCS = FALSE
    /\ ALLOC_STATS = DefaultStats
    /\ pc = [t \in Threads |-> "idle"]
    /\ stats = [t \in Threads |-> DefaultStats]
    /\ recorded = <<>>
    /\ stats_events = [t \in Threads |-> <<>>]
    /\ hooks = 0
    /\ skipped = FALSE
    /\ aborted = FALSE
    /\ hpc = [t \in Threads |-> "none"]
    /\ hsize = [t \in Threads |-> 0]
    /\ reg = [t \in Threads |-> 0]
    /\ calls = [started |-> 0, done |-> 0, bytes |-> 0, clean |-> TRUE]

\* no allocator call has been made, no on_realloc call and no benchmark is
\* under way
InitMeasure ==
    /\ alloc_call = NoCall
    /\ realloc_call = NoCall
    /\ bench = NoCall
    /\ perf = NoCall
    /\ fed = <<>>

\* no threshold check is under way
InitBench ==
    /\ overflow_checks = FALSE
    /\ threshold = None
    /\ value = 0
    /\ ref_value = 0
    /\ outcome = NotRun
    /\ argv = <<>>
    /\ fs = <<>>
    /\ f_calls = 0
    /\ baseline = <<>>
    /\ call = <<>>
    /\ baselines = {}

Init == InitSession /\ InitBench /\ InitMeasure

\* ----------------------------------------------------------- trace_allocs
\* pc: "idle"    outside trace_allocs
\*     "wait"    in the `while`, the last compare_exchange failed
\*     "closure" inside f()
\*     "replace" f() returned, before mem::replace
\*     "store"   after mem::replace, before TRACE_ALLOCS.store(false)
InLoop == {"idle", "wait"}

\* a session is open whose mem::replace is still to come
SnapshotPending == \E u \in Threads : pc[u] \in {"closure", "replace"}

\* no thread is inside a hook callback
NoCallRunning == \A u \in Threads : hpc[u] = "none"

compare_exchange_Blind(t) ==
    /\ ~aborted
    /\ pc[t] \in InLoop
    /\ hpc[t] = "none"
    /\ TRACE_ALLOCS' = TRUE
    /\ pc' = [pc EXCEPT ![t] = "closure"]
    /\ calls' = [calls EXCEPT !.done = 0, !.bytes = 0,
                              !.clean = @ /\ NoCallRunning]
    /\ UNCHANGED <<ALLOC_STATS, stats, recorded, stats_events, hooks, skipped,
                   aborted, hookregs, benchvars>>

\* compare_exchange(false, true) succeeds: the loop ends, f() starts
compare_exchange_Ok(t) ==
    /\ ~aborted
    /\ pc[t] \in InLoop
    /\ hpc[t] = "none"
    /\ TRACE_ALLOCS = FALSE
    /\ TRACE_ALLOCS' = TRUE
    /\ pc' = [pc EXCEPT ![t] = "closure"]
    /\ calls' = [calls EXCEPT !.done = 0, !.bytes = 0,
                              !.clean = @ /\ NoCallRunning]
    /\ UNCHANGED <<ALLOC_STATS, stats, recorded, stats_events, hooks, skipped,
                   aborted, hookregs, benchvars>>

\* compare_exchange(false, true) fails: is_err(), the empty loop body runs
compare_exchange_Err(t) ==
    /\ ~aborted
    /\ pc[t] \in InLoop
    /\ hpc[t] = "none"
    /\ TRACE_ALLOCS = TRUE
    /\ pc' = [pc EXCEPT ![t] = "wait"]
    /\ UNCHANGED <<TRACE_ALLOCS, ALLOC_STATS, stats, recorded, stats_events,
                   hooks, skipped, aborted, rwvars, benchvars>>

\* f() returns normally
ClosureReturn(t) ==
    /\ ~aborted
    /\ pc[t] = "closure"
    /\ hpc[t] = "none"
    /\ pc' = [pc EXCEPT ![t] = "replace"]
    /\ UNCHANGED <<TRACE_ALLOCS, ALLOC_STATS, stats, recorded, stats_events,
                   hooks, skipped, aborted, rwvars, benchvars>>

\* f() panics: trace_allocs has no drop guard, the unwind leaves the
\* function without running the two statements after f(), and the thread
\* (or the one that joins it) carries on outside trace_allocs
ClosurePanic(t) ==
    /\ ~aborted
    /\ pc[t] = "closure"
    /\ hpc[t] = "none"
    /\ pc' = [pc EXCEPT ![t] = "idle"]
    /\ UNCHANGED <<TRACE_ALLOCS, ALLOC_STATS, stats, recorded, stats_events,
                   hooks, skipped, aborted, rwvars, benchvars>>

\* let stats = mem::replace(&mut ALLOC_STATS, Default::default())
mem_replace(t) ==
    /\ ~aborted
    /\ pc[t] = "replace"
    /\ stats' = [stats EXCEPT ![t] = ALLOC_STATS]
    /\ ALLOC_STATS' = DefaultStats
    /\ stats_events' = [stats_events EXCEPT ![t] = recorded]
    /\ recorded' = <<>>
    /\ pc' = [pc EXCEPT ![t] = "store"]
    /\ calls' = [calls EXCEPT !.clean = @ /\ NoCallRunning]
    /\ UNCHANGED <<TRACE_ALLOCS, hooks, skipped, aborted, hookregs, benchvars>>

\* TRACE_ALLOCS.store(false); (o, stats) is handed to the caller
store_false(t) ==
    /\ ~aborted
    /\ pc[t] = "store"
    /\ TRACE_ALLOCS' = FALSE
    /\ pc' = [pc EXCEPT ![t] = "idle"]
    /\ stats' = [stats EXCEPT ![t] = DefaultStats]
    /\ stats_events' = [stats_events EXCEPT ![t] = <<>>]
    /\ UNCHANGED <<ALLOC_STATS, recorded, hooks, skipped, aborted, rwvars, benchvars>>

\* ------------------------------------------------- hook callbacks, atomic
\* The callback turns ALLOC_STATS into `new`.  When one of its additions does
\* not fit usize the build decides: it wraps (overflow checks off) or it
\* panics inside the global allocator, which ends the process.
HookStep(new, overflows, ev) ==
    /\ ~aborted
    /\ TRACE_ALLOCS => hooks < MaxHooks
    /\ IF TRACE_ALLOCS /\ overflows
       THEN \/ /\ ALLOC_STATS' = new
               /\ recorded' = Log(recorded, ev)
               /\ hooks' = hooks + 1
               /\ UNCHANGED aborted
            \/ /\ aborted' = TRUE
               /\ UNCHANGED <<ALLOC_STATS, recorded, hooks>>
       ELSE /\ ALLOC_STATS' = new
            /\ recorded' = IF TRACE_ALLOCS THEN Log(recorded, ev) ELSE recorded
            /\ hooks' = IF TRACE_ALLOCS THEN hooks + 1 ELSE hooks
            /\ UNCHANGED aborted
    /\ skipped' = (skipped \/ ~TRACE_ALLOCS)
    /\ UNCHANGED <<TRACE_ALLOCS, pc, stats, stats_events, rwvars, checkvars>>

OnAlloc(t, size) ==
    /\ pc[t] \in Allocating
    /\ HookStep(on_alloc(ALLOC_STATS, TRACE_ALLOCS, size),
                AllocOverflows(ALLOC_STATS, size),
                Event("on_alloc", 0, size))
    /\ UNCHANGED alloc_call

OnAllocZeroed(t, size) ==
    /\ pc[t] \in Allocating
    /\ HookStep(on_alloc_zeroed(ALLOC_STATS, TRACE_ALLOCS, size),
                AllocOverflows(ALLOC_STATS, size),
                Event("on_alloc_zeroed", 0, size))
    /\ UNCHANGED alloc_call

OnDealloc(t, size) ==
    /\ pc[t] \in Allocating
    /\ HookStep(on_dealloc(ALLOC_STATS, TRACE_ALLOCS, size),
                FALSE,
                Event("on_dealloc", 0, size))
    /\ UNCHANGED alloc_call

OnRealloc(t, old_size, new_size) ==
    /\ pc[t] \in Allocating
    /\ HookStep(on_realloc(ALLOC_STATS, TRACE_ALLOCS, old_size, new_size),
                ReallocOverflows(ALLOC_STATS, old_size, new_size),
                Event("on_realloc", old_size, new_size))
    /\ UNCHANGED alloc_call

Next ==
    \E t \in Threads :
        \/ compare_exchange_Ok(t)
        \/ compare_exchange_Err(t)
        \/ ClosureReturn(t)
        \/ ClosurePanic(t)
        \/ mem_replace(t)
        \/ store_false(t)
        \/ \E size \in Sizes : OnAlloc(t, size)
        \/ \E size \in Sizes : OnAllocZeroed(t, size)
        \/ \E size \in Sizes : OnDealloc(t, size)
        \/ \E old_size \in Sizes, new_size \in Sizes :
              OnRealloc(t, old_size, new_size)

Spec == Init /\ [][Next]_vars

\* ------------------------------- on_alloc, one load or store at a time
\* ALLOC_STATS is a `static mut` written without synchronisation: the
\* read-modify-write of each `+=` is a load and a store that other threads'
\* loads and stores fall between.
\* hpc: "none"                     not inside on_alloc
\*      "cur_load", "cur_store"    ALLOC_STATS.current += size
\*      "size_load", "size_store"  ALLOC_STATS.total_size += size
\*      "num_load", "num_store"    ALLOC_STATS.total_num += 1
\*      "cmp_cur", "cmp_peak"      if ALLOC_STATS.current > ALLOC_STATS.peak
\*      "peak_load", "peak_store"  ALLOC_STATS.peak = ALLOC_STATS.current

RwFrame ==
    UNCHANGED <<TRACE_ALLOCS, pc, stats, recorded, stats_events, hooks, benchvars>>

\* on_alloc is entered and loads TRACE_ALLOCS
rw_on_alloc(t, size) ==
    /\ ~aborted
    /\ pc[t] \in Allocating
    /\ hpc[t] = "none"
    /\ IF TRACE_ALLOCS
       THEN /\ calls.started < MaxCalls
            /\ hpc' = [hpc EXCEPT ![t] = "cur_load"]
            /\ hsize' = [hsize EXCEPT ![t] = size]
            /\ calls' = [calls EXCEPT !.started = @ + 1,
                                      !.clean = @ /\ SnapshotPending]
            /\ UNCHANGED skipped
       ELSE /\ skipped' = TRUE
            /\ UNCHANGED <<hpc, hsize, calls>>
    /\ UNCHANGED <<ALLOC_STATS, reg, aborted>>
    /\ RwFrame

\* the load half of a `+=`, or of the comparison's left operand
rw_load(t, at, field, to) ==
    /\ ~aborted
    /\ hpc[t] = at
    /\ reg' = [reg EXCEPT ![t] = ALLOC_STATS[field]]
    /\ hpc' = [hpc EXCEPT ![t] = to]
    /\ UNCHANGED <<ALLOC_STATS, hsize, calls, skipped, aborted>>
    /\ RwFrame

\* the store half of a `+=`: the loaded value plus the increment
rw_add_store(t, at, field, inc, to) ==
    /\ ~aborted
    /\ hpc[t] = at
    /\ IF AddOverflows(reg[t], inc)
       THEN \/ /\ ALLOC_STATS' = [ALLOC_STATS EXCEPT ![field] = WrappingAdd(reg[t], inc)]
               /\ UNCHANGED aborted
            \/ /\ aborted' = TRUE
               /\ UNCHANGED ALLOC_STATS
       ELSE /\ ALLOC_STATS' = [ALLOC_STATS EXCEPT ![field] = WrappingAdd(reg[t], inc)]
            /\ UNCHANGED aborted
    /\ hpc' = [hpc EXCEPT ![t] = to]
    /\ UNCHANGED <<hsize, reg, calls, skipped>>
    /\ RwFrame

\* on_alloc returns
RwReturn(t) ==
    /\ hpc' = [hpc EXCEPT ![t] = "none"]
    /\ hsize' = [hsize EXCEPT ![t] = 0]
    /\ reg' = [reg EXCEPT ![t] = 0]
    /\ calls' = [calls EXCEPT !.done = @ + 1, !.bytes = @ + hsize[t]]

rw_current_load(t) == rw_load(t, "cur_load", "current", "cur_store")
rw_current_store(t) == rw_add_store(t, "cur_store", "current", hsize[t], "size_load")
rw_total_size_load(t) == rw_load(t, "size_load", "total_size", "size_store")
rw_total_size_store(t) == rw_add_store(t, "size_store", "total_size", hsize[t], "num_load")
rw_total_num_load(t) == rw_load(t, "num_load", "total_num", "num_store")
rw_total_num_store(t) == rw_add_store(t, "num_store", "total_num", 1, "cmp_cur")
rw_compare_load(t) == rw_load(t, "cmp_cur", "current", "cmp_peak")

\* the comparison loads peak and branches
rw_compare(t) ==
    /\ ~aborted
    /\ hpc[t] = "cmp_peak"
    /\ IF reg[t] > ALLOC_STATS.peak
       THEN /\ hpc' = [hpc EXCEPT ![t] = "peak_load"]
            /\ UNCHANGED <<hsize, reg, calls>>
       ELSE RwReturn(t)
    /\ UNCHANGED <<ALLOC_STATS, skipped, aborted>>
    /\ RwFrame

rw_peak_load(t) == rw_load(t, "peak_load", "current", "peak_store")

rw_peak_store(t) ==
    /\ ~aborted
    /\ hpc[t] = "peak_store"
    /\ ALLOC_STATS' = [ALLOC_STATS EXCEPT !.peak = reg[t]]
    /\ RwReturn(t)
    /\ UNCHANGED <<skipped, aborted>>
    /\ RwFrame

NextRW ==
    \E t \in Threads :
        \/ compare_exchange_Ok(t)
        \/ compare_exchange_Err(t)
        \/ ClosureReturn(t)
        \/ ClosurePanic(t)
        \/ mem_replace(t)
        \/ store_false(t)
        \/ \E size \in Sizes : rw_on_alloc(t, size)
        \/ rw_current_load(t)
        \/ rw_current_store(t)
        \/ rw_total_size_load(t)
        \/ rw_total_size_store(t)
        \/ rw_total_num_load(t)
        \/ rw_total_num_store(t)
        \/ rw_compare_load(t)
        \/ rw_compare(t)
        \/ rw_peak_load(t)
        \/ rw_peak_store(t)

SpecRW == Init /\ [][NextRW]_vars

TypeOK ==
    /\ TRACE_ALLOCS \in BOOLEAN
    /\ ALLOC_STATS \in MemoryStats
    /\ stats \in [Threads -> MemoryStats]
    /\ hooks \in 0..MaxHooks
    /\ pc \in [Threads -> {"idle", "wait", "closure", "replace", "store"}]

\* ---------------------------------------------------- AllocThresholds::check
\* src/src/alloc/compare.rs (and the copy `AllocLimits` in src/src/lib.rs)
Fields == <<"current", "peak", "total_size", "total_num", "reallocs">>

\* #[builder(default)] on every field: Threshold::default() is None
DefaultAllocThresholds == [f \in {Fields[i] : i \in 1..Len(Fields)} |-> None]

\* check!(f, self, value, ref_value): the field's own Threshold::check, its
\* error wrapped into AllocThresholdsError { error, param }
check_field(f, self, v, r, checks) ==
    LET e == check(self[f], v[f], r[f], checks)
    IN IF e.kind = "Err"
       THEN [kind |-> "Err", error |-> e, param |-> f]
       ELSE e

\* the chain of `check!(..)?;` from the i-th field on: the first result that
\* is not Ok ends the function
RECURSIVE check_from(_, _, _, _, _)
check_from(i, self, v, r, checks) ==
    IF i > Len(Fields)
    THEN Ok
    ELSE LET e == check_field(Fields[i], self, v, r, checks)
         IN IF e.kind # "Ok" THEN e ELSE check_from(i + 1, self, v, r, checks)

AllocThresholds_check_Reversed(self, v, r, checks) ==
    LET RECURSIVE down(_)
        down(i) ==
            IF i < 1
            THEN Ok
            ELSE LET e == check_field(Fields[i], self, v, r, checks)
                 IN IF e.kind # "Ok" THEN e ELSE down(i - 1)
    IN down(Len(Fields))

AllocThresholds_check(self, v, r, checks) == check_from(1, self, v, r, checks)

\* a Threshold<usize>, as opposed to an AllocThresholds
IsThreshold(self) == "kind" \in DOMAIN self

\* ThresholdFor::check_threshold: Threshold<T> and AllocThresholds both
\* forward to their `check`
check_threshold_for(self, v, r, checks) ==
    IF IsThreshold(self)
    THEN check(self, v, r, checks)
    ELSE AllocThresholds_check(self, v, r, checks)

\* the per-field thresholds and the statistics the composite check is
\* applied to
FieldThresholds == {None, Cap(0)}

AllocThresholdsSet == [DOMAIN DefaultAllocThresholds -> FieldThresholds]

StatsSamples == [current : {1, 2}, peak : {1, 2}, total_size : {1, 2},
                 total_num : {1, 2}, reallocs : {1, 2}]

\* ------------------------------------------------- the checks, applied
\* SpecCmp: the inputs of one call are drawn, the call is made.
InitCmp ==
    /\ InitSession
    /\ overflow_checks \in BOOLEAN
    /\ \/ /\ threshold \in Thresholds
          /\ value \in Usize
          /\ ref_value \in Usize
       \/ /\ threshold \in AllocThresholdsSet
          /\ value \in StatsSamples
          /\ ref_value \in StatsSamples
    /\ outcome = NotRun
    /\ argv = <<>>
    /\ fs = <<>>
    /\ f_calls = 0
    /\ baseline = <<>>
    /\ call = <<>>
    /\ baselines = {}
    /\ InitMeasure

\* threshold.check(&value, &ref_value) on a Threshold<usize>
ThresholdCheck ==
    /\ outcome = NotRun
    /\ IsThreshold(threshold)
    /\ outcome' = check(threshold, value, ref_value, overflow_checks)
    /\ UNCHANGED <<overflow_checks, threshold, value, ref_value, iovars,
                   sessionvars, measurevars>>

\* thresholds.check(&value, &ref_value) on an AllocThresholds
AllocThresholdsCheck ==
    /\ outcome = NotRun
    /\ ~IsThreshold(threshold)
    /\ outcome' = AllocThresholds_check(threshold, value, ref_value,
                                        overflow_checks)
    /\ UNCHANGED <<overflow_checks, threshold, value, ref_value, iovars,
                   sessionvars, measurevars>>

NextCmp ==
    \/ ThresholdCheck
    \/ AllocThresholdsCheck

SpecCmp == InitCmp /\ [][NextCmp]_vars

\* -------------------------------------------------------- baseline paths
\* src/src/threshold.rs, check_threshold_with_args:
\*     baseline.join(id).with_extension(EXT)
\* (and baseline_file in src/src/benchmark.rs).  A file name is a sequence of
\* characters, a path a directory and a file name.

\* longest identifier
MaxIdLen == 3

\* number of check_threshold_with_args calls whose paths are compared
MaxRuns == 2

\* the characters of an identifier
Chars == {"a", "."}

EXT == <<"t", "o", "m", "l">>

\* the identifiers: the non-empty names other than "." and ".."
Ids ==
    UNION {[1..n -> Chars] : n \in 1..MaxIdLen} \ {<<".">>, <<".", ".">>}

\* the baseline directories: the default one (target directory joined with
\* the harness' name) and one given on the command line
DefaultDir == "target/alloc_bench"

GivenDir == "baselines"

Dirs == {DefaultDir, GivenDir}

\* Path::file_stem: the whole name if it has no '.', or only a leading one;
\* otherwise the part before the last '.'
file_stem(name) ==
    LET dots == {i \in 1..Len(name) : name[i] = "."}
        last == CHOOSE i \in dots : \A j \in dots : j <= i
    IN IF dots = {} THEN name
       ELSE IF last = 1 THEN name
       ELSE SubSeq(name, 1, last - 1)

\* Path::with_extension: the stem, a '.', the new extension
with_extension(name, ext) == file_stem(name) \o <<".">> \o ext

\* baseline.join(id).with_extension(EXT)
baseline_file(dir, id) == [dir |-> dir, name |-> with_extension(id, EXT)]

\* SpecPath: check_threshold_with_args is called for some identifiers and
\* directories; the paths it computes are kept.
InitPath ==
    /\ InitSession
    /\ InitBench
    /\ InitMeasure

BaselineFile(dir, id) ==
    /\ Cardinality(baselines) < MaxRuns
    /\ baseline' = baseline_file(dir, id)
    /\ baselines' = baselines \cup {[id |-> id, path |-> baseline_file(dir, id)]}
    /\ UNCHANGED <<overflow_checks, threshold, value, ref_value, outcome, argv,
                   fs, f_calls, call, sessionvars, measurevars>>

NextPath == \E dir \in Dirs, id \in Ids : BaselineFile(dir, id)

SpecPath == InitPath /\ [][NextPath]_vars

\* ------------------------------------------- regression-check orchestration
\* src/src/threshold.rs: check_threshold, check_threshold_with_str,
\* check_threshold_with_io, check_threshold_with_args, with T = MemoryStats
\* and H = AllocThresholds (the alloc_bench! macro).

\* the state of a baseline file
Absent == [kind |-> "absent"]

\* the file is there and cannot be read (a read error other than NotFound)
Unreadable == [kind |-> "unreadable"]

\* the file is there and is not the TOML of a measurement
Garbage == [kind |-> "garbage"]

\* toml::to_string(&value): the text a measurement is stored as
to_string(v) == [kind |-> "toml", value |-> v]

\* toml::from_str::<T>(&content) succeeds
Decodes(content) == content.kind = "toml"

\* the value toml::from_str returns for a content that decodes
from_str(content) == content.value

\* results of the orchestration functions
OkValue(v) == [kind |-> "Ok", value |-> v]

Regression(e) == [kind |-> "Regression", error |-> e]

IO(k) == [kind |-> "IO", error |-> k]

Decode == [kind |-> "Decode"]

\* threshold.check_threshold(&value, &ref_value).map_err(Regression)
compare(th, v, r, checks) ==
    LET c == check_threshold_for(th, v, r, checks)
    IN IF c.kind = "Err" THEN Regression(c) ELSE c

check_threshold_ReturnsBaseline(th, v, r, checks) ==
    LET c == check_threshold_for(th, v, r, checks)
    IN IF c.kind = "Ok" THEN OkValue(r) ELSE c

\* check_threshold(f, ref_value, threshold): the error is not wrapped
check_threshold(th, v, r, checks) ==
    LET c == check_threshold_for(th, v, r, checks)
    IN IF c.kind = "Ok" THEN OkValue(v) ELSE c

\* check_threshold_with_str(f, baseline, threshold): the baseline is decoded
\* before the closure is measured
check_threshold_with_str(th, v, str, checks) ==
    IF ~Decodes(str)
    THEN [result |-> Decode, measured |-> FALSE]
    ELSE LET c == compare(th, v, from_str(str), checks)
         IN [result |-> IF c.kind = "Ok" THEN OkValue(v) ELSE c,
             measured |-> TRUE]

\* the `if load_prev { .. }` of check_threshold_with_io on the baseline file
\* `file`: Ok to go on, or the error (or panic) that ends the function
load_NotFoundIsError(file, load_prev, strict_compare, th, v, checks) ==
    IF ~load_prev THEN Ok
    ELSE IF file.kind = "absent"
    THEN IO("NotFound")
    ELSE IF file.kind = "unreadable" THEN IO("PermissionDenied")
    ELSE IF ~Decodes(file) THEN Decode
    ELSE compare(th, v, from_str(file), checks)

load(file, load_prev, strict_compare, th, v, checks) ==
    IF ~load_prev THEN Ok
    ELSE IF file.kind = "absent"
    THEN IF ~strict_compare THEN Ok ELSE IO("NotFound")
    ELSE IF file.kind = "unreadable" THEN IO("PermissionDenied")
    ELSE IF ~Decodes(file) THEN Decode
    ELSE compare(th, v, from_str(file), checks)

\* the `if save_new { .. }` on the directory `d`: create_dir_all when the
\* parent is missing, then fs::write; both fail in a directory that cannot
\* be written
save(d, v) ==
    IF ~d.writable
    THEN [result |-> IO("PermissionDenied"), dir |-> d]
    ELSE [result |-> Ok,
          dir |-> [exists |-> TRUE, writable |-> TRUE, file |-> to_string(v)]]

check_threshold_with_io_SaveFirst(dir, load_prev, strict_compare, save_new, th, v, fsys, checks) ==
    LET loaded == load(fsys[dir].file, load_prev, strict_compare, th, v, checks)
        saved == save(fsys[dir], v)
        written == IF save_new THEN [fsys EXCEPT ![dir] = saved.dir] ELSE fsys
    IN IF save_new /\ saved.result.kind # "Ok"
       THEN [result |-> saved.result, fs |-> fsys]
       ELSE IF loaded.kind # "Ok" THEN [result |-> loaded, fs |-> written]
       ELSE [result |-> OkValue(v), fs |-> written]

\* check_threshold_with_io(f, baseline, load_prev, strict_compare, save_new,
\* threshold) on the baseline file of directory `dir`: its result and the file
\* system it leaves
check_threshold_with_io(dir, load_prev, strict_compare, save_new, th, v, fsys, checks) ==
    LET loaded == load(fsys[dir].file, load_prev, strict_compare, th, v, checks)
        saved == save(fsys[dir], v)
    IN IF loaded.kind # "Ok" THEN [result |-> loaded, fs |-> fsys]
       ELSE IF ~save_new THEN [result |-> OkValue(v), fs |-> fsys]
       ELSE IF saved.result.kind # "Ok" THEN [result |-> saved.result, fs |-> fsys]
       ELSE [result |-> OkValue(v), fs |-> [fsys EXCEPT ![dir] = saved.dir]]

\* Option<PathBuf>::None
NoDir == "None"

\* the command lines: the number of test names before `--`, whether --exact
\* is among them, and the three options after `--`
Argvs == [test_n : {1, 2}, exact : BOOLEAN, load_baseline : {NoDir, GivenDir},
          save_baseline : {NoDir, GivenDir}, discard_baseline : BOOLEAN]

\* parse_args panics: not exactly one test, or no --exact
parse_args_panics(args) == args.test_n # 1 \/ ~args.exact

\* the `match args` of check_threshold_with_args:
\* (baseline, load_prev, strict_compare, save_new), or the panic of `_`
Selection(dir, load_prev, strict_compare, save_new) ==
    [kind |-> "Selection", dir |-> dir, load_prev |-> load_prev,
     strict_compare |-> strict_compare, save_new |-> save_new]

match_args_Permissive(args) ==
    IF args.load_baseline # NoDir
    THEN Selection(args.load_baseline, TRUE, TRUE, FALSE)
    ELSE IF args.save_baseline # NoDir
    THEN Selection(args.save_baseline, FALSE, FALSE, TRUE)
    ELSE Selection(DefaultDir, FALSE, FALSE, ~args.discard_baseline)

match_args_DefaultCompares(args) ==
    IF args.load_baseline # NoDir /\ args.save_baseline = NoDir
       /\ ~args.discard_baseline
    THEN Selection(args.load_baseline, TRUE, TRUE, FALSE)
    ELSE IF args.load_baseline = NoDir /\ args.save_baseline # NoDir
            /\ ~args.discard_baseline
    THEN Selection(args.save_baseline, FALSE, FALSE, TRUE)
    ELSE IF args.load_baseline = NoDir /\ args.save_baseline = NoDir
    THEN Selection(DefaultDir, TRUE, FALSE, ~args.discard_baseline)
    ELSE Panicked

match_args(args) ==
    IF args.load_baseline # NoDir /\ args.save_baseline = NoDir
       /\ ~args.discard_baseline
    THEN Selection(args.load_baseline, TRUE, TRUE, FALSE)
    ELSE IF args.load_baseline = NoDir /\ args.save_baseline # NoDir
            /\ ~args.discard_baseline
    THEN Selection(args.save_baseline, FALSE, FALSE, TRUE)
    ELSE IF args.load_baseline = NoDir /\ args.save_baseline = NoDir
    THEN Selection(DefaultDir, FALSE, FALSE, ~args.discard_baseline)
    ELSE Panicked

\* mem_bench(id, limits, f) of src/src/benchmark.rs (the harness before
\* check_threshold_with_args; AllocLimits::check is AllocThresholds::check,
\* its parse_args the same function): the baseline is loaded before the
\* closure is traced, from --load-baseline and then it must be there, or
\* else from the default directory; the new measurement is stored unless
\* --discard-baseline or --load-baseline is given.  `measured` tells whether
\* trace_allocs(f) was reached.
mem_bench(args, limits, v, fsys, checks) ==
    LET strict == args.load_baseline # NoDir
        from_dir == IF strict THEN args.load_baseline ELSE DefaultDir
        to_dir == IF args.save_baseline # NoDir THEN args.save_baseline
                  ELSE DefaultDir
        loaded == load(fsys[from_dir].file, TRUE, strict, limits, v, checks)
        saved == save(fsys[to_dir], v)
    IN IF parse_args_panics(args)
       THEN [result |-> Panicked, fs |-> fsys, measured |-> FALSE]
       ELSE IF loaded.kind \in {"IO", "Decode"}
       THEN [result |-> loaded, fs |-> fsys, measured |-> FALSE]
       ELSE IF loaded.kind # "Ok"
       THEN [result |-> loaded, fs |-> fsys, measured |-> TRUE]
       ELSE IF args.discard_baseline \/ strict
       THEN [result |-> OkValue(v), fs |-> fsys, measured |-> TRUE]
       ELSE IF saved.result.kind # "Ok"
       THEN [result |-> saved.result, fs |-> fsys, measured |-> TRUE]
       ELSE [result |-> OkValue(v), fs |-> [fsys EXCEPT ![to_dir] = saved.dir],
             measured |-> TRUE]

\* the states of a baseline directory: missing (with no file in it) or there,
\* writable (creatable) or not
DirStates ==
    {d \in [exists : BOOLEAN, writable : BOOLEAN,
            file : {Absent, Unreadable, Garbage}
                   \cup {to_string(v) : v \in StatsSamples}] :
        ~d.exists => d.file = Absent}

\* the measurements and thresholds of the orchestration runs
IoStats == {v \in StatsSamples : v.peak = v.total_size
                                 /\ v.total_size = v.total_num
                                 /\ v.total_num = v.reallocs}

IoThresholds == {DefaultAllocThresholds,
                 [f \in DOMAIN DefaultAllocThresholds |-> Cap(0)]}

IoDirStates == {d \in DirStates : d.file.kind = "toml" => d.file.value \in IoStats}

\* the identifier of the measured test
TestId == <<"a">>

\* SpecIO: a file system, a closure (the measurement it yields) and a
\* threshold are given; one orchestration function is called.
InitIO ==
    /\ InitSession
    /\ overflow_checks = FALSE
    /\ threshold \in IoThresholds
    /\ value \in IoStats
    /\ ref_value = 0
    /\ outcome = NotRun
    /\ argv = <<>>
    /\ fs \in [Dirs -> IoDirStates]
    /\ f_calls = 0
    /\ baseline = <<>>
    /\ call = <<>>
    /\ baselines = {}
    /\ InitMeasure

IoFrame ==
    UNCHANGED <<overflow_checks, threshold, value, sessionvars, measurevars>>

CheckThreshold(r) ==
    /\ outcome = NotRun
    /\ call' = [fn |-> "check_threshold"]
    /\ ref_value' = r
    /\ f_calls' = f_calls + 1
    /\ outcome' = check_threshold(threshold, value, r, overflow_checks)
    /\ UNCHANGED <<argv, fs, baseline, baselines>>
    /\ IoFrame

CheckThresholdWithStr(str) ==
    /\ outcome = NotRun
    /\ call' = [fn |-> "check_threshold_with_str", baseline |-> str]
    /\ LET r == check_threshold_with_str(threshold, value, str, overflow_checks)
       IN /\ outcome' = r.result
          /\ f_calls' = IF r.measured THEN f_calls + 1 ELSE f_calls
    /\ UNCHANGED <<ref_value, argv, fs, baseline, baselines>>
    /\ IoFrame

CheckThresholdWithIo(dir, load_prev, strict_compare, save_new) ==
    /\ outcome = NotRun
    /\ call' = [fn |-> "check_threshold_with_io", dir |-> dir,
                load_prev |-> load_prev, strict_compare |-> strict_compare,
                save_new |-> save_new]
    /\ f_calls' = f_calls + 1
    /\ LET r == check_threshold_with_io(dir, load_prev, strict_compare, save_new,
                                        threshold, value, fs, overflow_checks)
       IN /\ outcome' = r.result
          /\ fs' = r.fs
    /\ UNCHANGED <<ref_value, argv, baseline, baselines>>
    /\ IoFrame

CheckThresholdWithArgs(args, id) ==
    /\ outcome = NotRun
    /\ argv' = args
    /\ call' = [fn |-> "check_threshold_with_args"]
    /\ IF parse_args_panics(args) \/ match_args(args) = Panicked
       THEN /\ outcome' = Panicked
            /\ UNCHANGED <<fs, f_calls, baseline, baselines>>
       ELSE LET sel == match_args(args)
                r == check_threshold_with_io(sel.dir, sel.load_prev,
                                             sel.strict_compare, sel.save_new,
                                             threshold, value, fs,
                                             overflow_checks)
            IN /\ baseline' = baseline_file(sel.dir, id)
               /\ baselines' = baselines
                               \cup {[id |-> id, path |-> baseline_file(sel.dir, id)]}
               /\ f_calls' = f_calls + 1
               /\ outcome' = r.result
               /\ fs' = r.fs
    /\ UNCHANGED ref_value
    /\ IoFrame

MemBench(args) ==
    /\ outcome = NotRun
    /\ argv' = args
    /\ call' = [fn |-> "mem_bench"]
    /\ LET r == mem_bench(args, threshold, value, fs, overflow_checks)
       IN /\ outcome' = r.result
          /\ fs' = r.fs
          /\ f_calls' = IF r.measured THEN f_calls + 1 ELSE f_calls
    /\ UNCHANGED <<ref_value, baseline, baselines>>
    /\ IoFrame

NextIO ==
    \/ \E r \in IoStats : CheckThreshold(r)
    \/ \E str \in {Garbage} \cup {to_string(r) : r \in IoStats} :
           CheckThresholdWithStr(str)
    \/ \E dir \in Dirs, load_prev \in BOOLEAN, strict_compare \in BOOLEAN,
          save_new \in BOOLEAN :
           CheckThresholdWithIo(dir, load_prev, strict_compare, save_new)
    \/ \E args \in Argvs : CheckThresholdWithArgs(args, TestId)
    \/ \E args \in Argvs : MemBench(args)

SpecIO == InitIO /\ [][NextIO]_vars

\* ------------------------------------------------------- TracingAllocator
\* src/src/alloc/allocator.rs (and the copy in src/src/lib.rs): the GlobalAlloc
\* methods of TracingAllocator<H, A>.  A is any allocator, so what it answers
\* is drawn; H is MemoryTracingHooks.

\* pointers: null, which an allocator returns when it fails, and two addresses
Pointers == {"null", "p", "q"}

\* the larger size of a layout: the counters of MaxHooks recorded calls of
\* that size fit usize, so that no addition of a hook overflows here
LayoutSize == (UsizeMod - 1) \div MaxHooks

\* Layout: size and align
Layouts == {[size |-> 1, align |-> 2], [size |-> LayoutSize, align |-> 1]}

\* a call self.0.<fn>(args) to the wrapped allocator and its result
InnerCall(fn, args, result) ==
    [who |-> "inner", fn |-> fn, args |-> args, result |-> result]

\* a call self.1.<fn>(args) to the hooks
HookCall(fn, args) == [who |-> "hook", fn |-> fn, args |-> args]

\* a GlobalAlloc method call: the calls it made, in order, and its result
Call(fn, args, trace, ret) ==
    [fn |-> fn, args |-> args, trace |-> trace, ret |-> ret]

alloc_HookFirst(layout, pointer) ==
    Call("alloc", <<layout>>,
         <<HookCall("on_alloc", <<"null", layout.size, layout.align>>),
           InnerCall("alloc", <<layout>>, pointer)>>,
         pointer)

\* TracingAllocator::alloc(layout), `pointer` being what self.0.alloc answers
alloc(layout, pointer) ==
    Call("alloc", <<layout>>,
         <<InnerCall("alloc", <<layout>>, pointer),
           HookCall("on_alloc", <<pointer, layout.size, layout.align>>)>>,
         pointer)

\* TracingAllocator::dealloc(pointer, layout)
dealloc(pointer, layout) ==
    Call("dealloc", <<pointer, layout>>,
         <<InnerCall("dealloc", <<pointer, layout>>, "unit"),
           HookCall("on_dealloc", <<pointer, layout.size, layout.align>>)>>,
         "unit")

\* TracingAllocator::alloc_zeroed(layout)
alloc_zeroed(layout, pointer) ==
    Call("alloc_zeroed", <<layout>>,
         <<InnerCall("alloc_zeroed", <<layout>>, pointer),
           HookCall("on_alloc_zeroed", <<pointer, layout.size, layout.align>>)>>,
         pointer)

\* TracingAllocator::realloc(old_pointer, layout, new_size), `new_pointer`
\* being what self.0.realloc answers
realloc(old_pointer, layout, new_size, new_pointer) ==
    Call("realloc", <<old_pointer, layout, new_size>>,
         <<InnerCall("realloc", <<old_pointer, layout, new_size>>, new_pointer),
           HookCall("on_realloc", <<old_pointer, new_pointer, layout.size,
                                    new_size, layout.align>>)>>,
         new_pointer)

hook_InPlaceResize(st, flag, h) ==
    IF h.fn = "on_alloc" THEN on_alloc(st, flag, h.args[2])
    ELSE IF h.fn = "on_alloc_zeroed" THEN on_alloc_zeroed(st, flag, h.args[2])
    ELSE IF h.fn = "on_dealloc" THEN on_dealloc(st, flag, h.args[2])
    ELSE IF h.args[1] # h.args[2] THEN on_realloc(st, flag, h.args[3], h.args[4])
    ELSE IF ~flag THEN st
    ELSE LET cur == WrappingAdd(saturating_sub(st.current, h.args[3]), h.args[4])
         IN [st EXCEPT !.reallocs = WrappingAdd(st.reallocs, 1),
                       !.current = cur,
                       !.peak = IF cur > st.peak THEN cur ELSE st.peak]

hook_SkipsNull(st, flag, h) ==
    IF h.fn \in {"on_alloc", "on_alloc_zeroed"}
    THEN IF h.args[1] = "null" THEN st ELSE on_alloc(st, flag, h.args[2])
    ELSE IF h.fn = "on_dealloc" THEN on_dealloc(st, flag, h.args[2])
    ELSE on_realloc(st, flag, h.args[3], h.args[4])

\* MemoryTracingHooks: the callback `h` on the accumulator; the pointers and
\* the alignment are ignored
hook(st, flag, h) ==
    IF h.fn = "on_alloc" THEN on_alloc(st, flag, h.args[2])
    ELSE IF h.fn = "on_alloc_zeroed" THEN on_alloc_zeroed(st, flag, h.args[2])
    ELSE IF h.fn = "on_dealloc" THEN on_dealloc(st, flag, h.args[2])
    ELSE on_realloc(st, flag, h.args[3], h.args[4])

\* thread t calls a method of the global allocator: the call `c`, its hook
\* callback acting on the session
GlobalAlloc(t, c) ==
    /\ pc[t] \in Allocating
    /\ LET h == SelectSeq(c.trace, LAMBDA e : e.who = "hook")[1]
           sized == h.fn \in {"on_alloc", "on_alloc_zeroed", "on_dealloc"}
       IN HookStep(hook(ALLOC_STATS, TRACE_ALLOCS, h),
                   IF h.fn = "on_dealloc" THEN FALSE
                   ELSE IF sized THEN AllocOverflows(ALLOC_STATS, h.args[2])
                   ELSE ReallocOverflows(ALLOC_STATS, h.args[3], h.args[4]),
                   IF sized THEN Event(h.fn, 0, h.args[2])
                   ELSE Event(h.fn, h.args[3], h.args[4]))
    /\ alloc_call' = c

Alloc(t, layout, pointer) == GlobalAlloc(t, alloc(layout, pointer))

Dealloc(t, pointer, layout) == GlobalAlloc(t, dealloc(pointer, layout))

AllocZeroed(t, layout, pointer) == GlobalAlloc(t, alloc_zeroed(layout, pointer))

Realloc(t, old_pointer, layout, new_size, new_pointer) ==
    GlobalAlloc(t, realloc(old_pointer, layout, new_size, new_pointer))

\* the thread that measures
Owner == CHOOSE t \in Threads : TRUE

\* the layout of the block that is freed, zeroed or resized
Block == [size |-> LayoutSize, align |-> 1]

\* SpecAlloc: one thread runs trace_allocs, its closure returns, and it calls
\* the global allocator inside and outside the session; the wrapped allocator
\* fails (null), or succeeds; realloc resizes in place ("p") or moves ("q").
NextAlloc ==
    \/ compare_exchange_Ok(Owner)
    \/ ClosureReturn(Owner)
    \/ mem_replace(Owner)
    \/ store_false(Owner)
    \/ \E layout \in Layouts, pointer \in {"null", "p"} :
           Alloc(Owner, layout, pointer)
    \/ Dealloc(Owner, "p", Block)
    \/ \E pointer \in {"null", "p"} : AllocZeroed(Owner, Block, pointer)
    \/ \E new_size \in {1, LayoutSize}, new_pointer \in Pointers :
           Realloc(Owner, "p", Block, new_size, new_pointer)

SpecAlloc == Init /\ [][NextAlloc]_vars

\* ------------------------------------------------------ timing statistics
\* src/src/perf/measure.rs.  Stats keeps n, mean and q as f64 numbers of
\* seconds; here a time is the exact rational num/den of nanoseconds (the
\* same quantity, 10^9 times the number the code holds), in lowest terms.

\* number of samples handed to Stats::update per behaviour of SpecStats
MaxSamples == 4

\* width of the u64 of PerfStats.mean in bits
MicrosBits == 3

\* iteration counts above the smallest one that bench_internal accepts
ExtraIters == 1

U64Max == 2^MicrosBits - 1

\* Duration::as_micros: nanoseconds per microsecond
NANOS_PER_MICRO == 1000

Rat(num, den) ==
    LET a == IF num < 0 THEN 0 - num ELSE num
        b == IF den < 0 THEN 0 - den ELSE den
        g == gcd(a, b)
    IN [num |-> (IF den < 0 THEN 0 - num ELSE num) \div g, den |-> b \div g]

RatAdd(a, b) == Rat(a.num * b.den + b.num * a.den, a.den * b.den)

RatSub(a, b) == Rat(a.num * b.den - b.num * a.den, a.den * b.den)

RatMul(a, b) == Rat(a.num * b.num, a.den * b.den)

\* Stats::new(): Default
Stats_new == [n |-> 0, mean |-> Rat(0, 1), q |-> Rat(0, 1)]

update_SquaredDelta(self, x) ==
    LET n == self.n + 1
        p == RatSub(x, self.mean)
    IN [n |-> n,
        mean |-> RatAdd(self.mean, RatMul(p, Rat(1, n))),
        q |-> RatAdd(self.q, RatMul(p, p))]

\* Stats::update(dur), x being dur.as_secs_f64()
update(self, x) ==
    LET n == self.n + 1
        p == RatSub(x, self.mean)
        mean == RatAdd(self.mean, RatMul(p, Rat(1, n)))
    IN [n |-> n,
        mean |-> mean,
        q |-> RatAdd(self.q, RatMul(p, RatSub(x, mean)))]

PerfStats(mean) == [kind |-> "PerfStats", mean |-> mean]

\* Duration::from_secs_f64(secs): it panics on a negative number; it keeps
\* whole nanoseconds, the nearest (ties to even) with the current standard
\* library, the next lower one with the library before Rust 1.63 (`round`
\* tells which).  The Duration is its number of nanoseconds.
from_secs_f64(secs, round) ==
    LET floor == secs.num \div secs.den
        twice == 2 * (secs.num - floor * secs.den)
        up == \/ twice > secs.den
              \/ twice = secs.den /\ floor % 2 = 1
    IN IF secs.num < 0 THEN Panicked
       ELSE [kind |-> "Duration",
             nanos |-> IF round /\ up THEN floor + 1 ELSE floor]

from_Wrapping(source, round) ==
    LET d == from_secs_f64(source.mean, round)
    IN IF d.kind = "panic" THEN Panicked
       ELSE PerfStats((d.nanos \div NANOS_PER_MICRO) % (U64Max + 1))

\* <PerfStats as From<Stats>>::from(source):
\* Duration::from_secs_f64(source.mean).as_micros().try_into().unwrap()
from(source, round) ==
    LET d == from_secs_f64(source.mean, round)
    IN IF d.kind = "panic" THEN Panicked
       ELSE IF d.nanos \div NANOS_PER_MICRO > U64Max THEN Panicked
       ELSE PerfStats(d.nanos \div NANOS_PER_MICRO)

\* the samples of SpecStats: whole numbers
Samples == {Rat(k, 1) : k \in 1..MaxSamples}

\* the means whose conversion is studied: around each whole microsecond up to
\* the first that does not fit, and negative ones
Means ==
    {RatAdd(Rat(m * NANOS_PER_MICRO, 1), f) :
        m \in 0..(U64Max + 1),
        f \in {Rat(0, 1), Rat(1, 2), Rat(999, 1), Rat(2998, 3), Rat(1999, 2),
               Rat(2999, 3)}}
    \cup {Rat(0 - 1, 2), Rat(0 - NANOS_PER_MICRO, 1)}

\* SpecStats: a Stats, fresh or with a given mean; samples are handed to a
\* fresh one; the Stats is converted into a PerfStats.
InitStats ==
    /\ InitSession
    /\ InitBench
    /\ alloc_call = NoCall
    /\ realloc_call = NoCall
    /\ perf \in {Stats_new} \cup {[n |-> 1, mean |-> m, q |-> Rat(0, 1)] : m \in Means}
    /\ bench = [fn |-> "Stats", source |-> perf]
    /\ fed = <<>>

Update(x) ==
    /\ outcome = NotRun
    /\ bench.source = Stats_new
    /\ Len(fed) < MaxSamples
    /\ perf' = update(perf, x)
    /\ fed' = Append(fed, x)
    /\ UNCHANGED <<overflow_checks, threshold, value, ref_value, outcome, iovars,
                   sessionvars, alloc_call, realloc_call, bench>>

Into(round) ==
    /\ outcome = NotRun
    /\ outcome' = from(perf, round)
    /\ call' = [fn |-> "from", round |-> round]
    /\ UNCHANGED <<overflow_checks, threshold, value, ref_value, argv, fs,
                   f_calls, baseline, baselines, sessionvars, measurevars>>

NextStats ==
    \/ \E x \in Samples : Update(x)
    \/ \E round \in BOOLEAN : Into(round)

SpecStats == InitStats /\ [][NextStats]_vars

\* ------------------------------------------------------------ bench_internal
\* const ITERS: (usize, usize)
ITERS == <<20, 5>>

\* assert!(iters >= 20, ..)
MinIters == 20

bench_internal_panics_NoRatio(iters, wu_cd_iters) == iters < MinIters

\* the two assert! of bench_internal; `iters / wu_cd_iters` panics on a zero
\* divisor
bench_internal_panics(iters, wu_cd_iters) ==
    \/ iters < MinIters
    \/ wu_cd_iters = 0
    \/ iters \div wu_cd_iters <= 3

keeps_OffByOne(i, iters, wu_cd_iters) ==
    i > wu_cd_iters /\ i < iters - wu_cd_iters

\* if i >= wu_cd_iters && i < iters - wu_cd_iters
keeps(i, iters, wu_cd_iters) == i >= wu_cd_iters /\ i < iters - wu_cd_iters

\* the durations duration_of(f) measures
Times == {Rat(999, 1), Rat(1001, 1)}

\* bench_internal(iters, wu_cd_iters, f) up to the loop
BenchInternal(iters, wu_cd_iters) ==
    /\ bench = NoCall
    /\ IF bench_internal_panics(iters, wu_cd_iters)
       THEN /\ bench' = [fn |-> "bench_internal", iters |-> iters,
                         wu_cd_iters |-> wu_cd_iters, i |-> 0, kept |-> <<>>,
                         at |-> "panicked"]
            /\ outcome' = Panicked
            /\ UNCHANGED perf
       ELSE /\ bench' = [fn |-> "bench_internal", iters |-> iters,
                         wu_cd_iters |-> wu_cd_iters, i |-> 0, kept |-> <<>>,
                         at |-> "loop"]
            /\ perf' = Stats_new
            /\ UNCHANGED outcome
    /\ UNCHANGED <<overflow_checks, threshold, value, ref_value, iovars,
                   sessionvars, alloc_call, realloc_call, fed>>

\* one iteration of `for i in 0..iters`: f is timed, the sample is kept or not
Iterate(time) ==
    /\ bench.fn = "bench_internal"
    /\ bench.at = "loop"
    /\ bench.i < bench.iters
    /\ f_calls' = f_calls + 1
    /\ IF keeps(bench.i, bench.iters, bench.wu_cd_iters)
       THEN /\ perf' = update(perf, time)
            /\ bench' = [bench EXCEPT !.i = @ + 1, !.kept = Append(@, bench.i)]
       ELSE /\ bench' = [bench EXCEPT !.i = @ + 1]
            /\ UNCHANGED perf
    /\ UNCHANGED <<overflow_checks, threshold, value, ref_value, outcome, argv,
                   fs, baseline, call, baselines, sessionvars, alloc_call,
                   realloc_call, fed>>

\* the loop is over: stats.into()
Finish(round) ==
    /\ bench.fn = "bench_internal"
    /\ bench.at = "loop"
    /\ bench.i = bench.iters
    /\ outcome' = from(perf, round)
    /\ call' = [fn |-> "from", round |-> round]
    /\ bench' = [bench EXCEPT !.at = "done"]
    /\ UNCHANGED <<overflow_checks, threshold, value, ref_value, argv, fs,
                   f_calls, baseline, baselines, sessionvars, alloc_call,
                   realloc_call, perf, fed>>

\* SpecBench: bench(f), bench_iters(iters, f), or bench_internal with any
\* warm-up count; then the loop.
NextBench ==
    \/ BenchInternal(ITERS[1], ITERS[2])
    \/ \E iters \in (MinIters - 1)..(MinIters + ExtraIters) :
           BenchInternal(iters, iters \div 10)
    \/ \E iters \in (MinIters - 1)..(MinIters + ExtraIters),
          wu_cd_iters \in 0..(ITERS[2] + 2) :
           BenchInternal(iters, wu_cd_iters)
    \/ \E time \in Times : Iterate(time)
    \/ \E round \in BOOLEAN : Finish(round)

SpecBench == Init /\ [][NextBench]_vars

\* ------------------------------------------- on_realloc, load by load
\* on_realloc (src/src/alloc/measure.rs:95-111) loads TRACE_ALLOCS three
\* times: for `reallocs += 1`, inside self.on_dealloc and inside
\* self.on_alloc.  SpecRealloc: one thread outside any session makes one
\* on_realloc call, a step per load; the other threads run trace_allocs.

\* the thread whose allocator calls on_realloc
Caller == CHOOSE t \in Threads : TRUE

\* history: where a load of TRACE_ALLOCS lets its update land: nowhere (the
\* flag is false), in the accumulator of the open session, or, mem::replace
\* having run already, in the accumulator the next session will start with
Landing ==
    IF ~TRACE_ALLOCS THEN "none"
    ELSE IF \E u \in Threads : pc[u] = "store" THEN "next"
    ELSE "this"

\* one load of TRACE_ALLOCS with the update it guards: ALLOC_STATS becomes
\* `new`, the call `c` goes on
ReallocStep(c, new) ==
    /\ ALLOC_STATS' = new
    /\ realloc_call' = [c EXCEPT !.landed = Append(@, Landing)]
    /\ UNCHANGED <<TRACE_ALLOCS, pc, stats, recorded, stats_events, hooks,
                   skipped, aborted, rwvars, overflow_checks, threshold, value,
                   ref_value, outcome, iovars, alloc_call, perfvars>>

\* if TRACE_ALLOCS.load(Acquire) { ALLOC_STATS.reallocs += 1 }
OnReallocCount(t, old_size, new_size) ==
    /\ realloc_call = NoCall
    /\ pc[t] = "idle"
    /\ ReallocStep([fn |-> "on_realloc", thread |-> t, old_size |-> old_size,
                    new_size |-> new_size, at |-> "on_dealloc", landed |-> <<>>],
                   IF TRACE_ALLOCS
                   THEN [ALLOC_STATS EXCEPT !.reallocs = WrappingAdd(@, 1)]
                   ELSE ALLOC_STATS)

\* self.on_dealloc(old_pointer, old_size, align)
OnReallocDealloc(t) ==
    /\ realloc_call.fn = "on_realloc"
    /\ realloc_call.thread = t
    /\ realloc_call.at = "on_dealloc"
    /\ ReallocStep([realloc_call EXCEPT !.at = "on_alloc"],
                   on_dealloc(ALLOC_STATS, TRACE_ALLOCS, realloc_call.old_size))

\* self.on_alloc(new_pointer, new_size, align)
OnReallocAlloc(t) ==
    /\ realloc_call.fn = "on_realloc"
    /\ realloc_call.thread = t
    /\ realloc_call.at = "on_alloc"
    /\ ReallocStep([realloc_call EXCEPT !.at = "returned"],
                   on_alloc(ALLOC_STATS, TRACE_ALLOCS, realloc_call.new_size))

NextRealloc ==
    \/ \E t \in Threads \ {Caller} :
           \/ compare_exchange_Ok(t)
           \/ ClosureReturn(t)
           \/ mem_replace(t)
           \/ store_false(t)
    \/ \E old_size \in Sizes, new_size \in Sizes :
           OnReallocCount(Caller, old_size, new_size)
    \/ OnReallocDealloc(Caller)
    \/ OnReallocAlloc(Caller)

SpecRealloc == Init /\ [][NextRealloc]_vars

\* --------------------------------------------------- nested trace_allocs
\* SpecNested: the closure of a trace_allocs call may call trace_allocs
\* itself (same thread).  pc "nested_loop": the nested call is at its loop;
\* "nested_wait": its compare_exchange has failed at least once;
\* "nested_closure": it has acquired the flag.
Nested == {"nested_loop", "nested_wait"}

\* f() calls trace_allocs
NestedCall(t) ==
    /\ ~aborted
    /\ pc[t] = "closure"
    /\ hpc[t] = "none"
    /\ pc' = [pc EXCEPT ![t] = "nested_loop"]
    /\ UNCHANGED <<TRACE_ALLOCS, ALLOC_STATS, stats, recorded, stats_events,
                   hooks, skipped, aborted, rwvars, benchvars>>

nested_compare_exchange_Blind(t) ==
    /\ ~aborted
    /\ pc[t] \in Nested
    /\ TRACE_ALLOCS' = TRUE
    /\ pc' = [pc EXCEPT ![t] = "nested_closure"]
    /\ UNCHANGED <<ALLOC_STATS, stats, recorded, stats_events, hooks, skipped,
                   aborted, rwvars, benchvars>>

\* the nested call's compare_exchange(false, true): the loop ends if it
\* finds the flag false, and goes round if not
nested_compare_exchange(t) ==
    /\ ~aborted
    /\ pc[t] \in Nested
    /\ TRACE_ALLOCS' = TRUE
    /\ pc' = [pc EXCEPT ![t] = IF TRACE_ALLOCS THEN "nested_wait"
                                ELSE "nested_closure"]
    /\ UNCHANGED <<ALLOC_STATS, stats, recorded, stats_events, hooks, skipped,
                   aborted, rwvars, benchvars>>

NextNested ==
    \E t \in Threads :
        \/ compare_exchange_Ok(t)
        \/ compare_exchange_Err(t)
        \/ ClosureReturn(t)
        \/ mem_replace(t)
        \/ store_false(t)
        \/ \E size \in Sizes : OnAlloc(t, size)
        \/ NestedCall(t)
        \/ nested_compare_exchange(t)

SpecNested == Init /\ [][NextNested]_vars

\* ================================================================ claims
InSession(t) == pc[t] \in {"closure", "replace", "store"}

Max(a, b) == IF a > b THEN a ELSE b

\* C1: at most one thread is between its successful compare_exchange and its
\* store(false); a thread inside its closure is alone in the session, and
\* the flag is set for as long as a thread is in the session.
C1_MutualExclusion ==
    \A t1, t2 \in Threads :
        InSession(t1) =>
            /\ TRACE_ALLOCS
            /\ InSession(t2) => t1 = t2

\* a second caller is spinning while the first is inside its session
C1_Witness ==
    \E t1, t2 \in Threads :
        t1 # t2 /\ pc[t1] = "store" /\ pc[t2] = "wait"

\* C2 (as claimed): whenever a trace_allocs call acquires the slot, all five
\* fields of ALLOC_STATS are zero.
C2_ZeroAtStart ==
    [][\A t \in Threads : compare_exchange_Ok(t) => ALLOC_STATS = DefaultStats]_vars

\* C3: a session whose snapshot records exactly on_alloc(S), on_dealloc(S)
\* returns current = 0, peak = S, total_size = S, total_num = 1, reallocs = 0.
C3_AllocThenDealloc ==
    \A t \in Threads, S \in Sizes :
        (/\ pc[t] = "store"
         /\ stats_events[t] = <<Event("on_alloc", 0, S), Event("on_dealloc", 0, S)>>)
        => stats[t] = [current |-> 0, peak |-> S, total_size |-> S,
                       total_num |-> 1, reallocs |-> 0]

C3_Witness ==
    \E t \in Threads :
        /\ pc[t] = "store"
        /\ stats_events[t] = <<Event("on_alloc", 0, IsizeMax),
                               Event("on_dealloc", 0, IsizeMax)>>

AllocThenRealloc(t, S1, S2) ==
    /\ pc[t] = "store"
    /\ stats_events[t] = <<Event("on_alloc", 0, S1), Event("on_realloc", S1, S2)>>

\* C4 (as claimed): on_alloc(S1) then on_realloc(S1 -> S2) returns
\* total_num = 1, reallocs = 1, current = S2, peak = max(S1, S2),
\* total_size = S1 + S2.
C4_AllocThenRealloc_Original ==
    \A t \in Threads, S1 \in Sizes, S2 \in Sizes :
        AllocThenRealloc(t, S1, S2)
        => stats[t] = [current |-> S2, peak |-> Max(S1, S2),
                       total_size |-> WrappingAdd(S1, S2),
                       total_num |-> 1, reallocs |-> 1]

\* C4 (amended): on_alloc(S1) then on_realloc(S1 -> S2) returns
\* total_num = 2, reallocs = 1, current = S2, peak = max(S1, S2),
\* total_size = S1 + S2 (in usize arithmetic).
C4_AllocThenRealloc ==
    \A t \in Threads, S1 \in Sizes, S2 \in Sizes :
        AllocThenRealloc(t, S1, S2)
        => stats[t] = [current |-> S2, peak |-> Max(S1, S2),
                       total_size |-> WrappingAdd(S1, S2),
                       total_num |-> 2, reallocs |-> 1]

C4_Witness ==
    \E t \in Threads, S1 \in Sizes, S2 \in Sizes :
        S1 < S2 /\ AllocThenRealloc(t, S1, S2)

\* C5: current <= peak in the accumulator in every reachable state and in
\* every snapshot taken by trace_allocs (hook callbacks atomic).
C5_CurrentLePeak ==
    /\ ALLOC_STATS.current <= ALLOC_STATS.peak
    /\ \A t \in Threads : stats[t].current <= stats[t].peak

\* a snapshot taken after the live bytes went below the peak and up again
C5_Witness ==
    \E t \in Threads :
        /\ pc[t] = "store"
        /\ 0 < stats[t].current
        /\ stats[t].current < stats[t].peak
        /\ stats[t].total_num >= 2

\* a step of trace_allocs' mem::replace
IsReplace == \E t \in Threads : pc[t] = "replace" /\ pc'[t] = "store"

\* C6 (as claimed): within a recording window every hook callback leaves
\* peak, total_size, total_num and reallocs at least as large as before, and
\* on_dealloc(size) with size > current sets current to 0 and changes no
\* other field.
C6_MonotoneCounters ==
    [][/\ ~IsReplace =>
            /\ ALLOC_STATS'.peak >= ALLOC_STATS.peak
            /\ ALLOC_STATS'.total_size >= ALLOC_STATS.total_size
            /\ ALLOC_STATS'.total_num >= ALLOC_STATS.total_num
            /\ ALLOC_STATS'.reallocs >= ALLOC_STATS.reallocs
       /\ \A t \in Threads, size \in Sizes :
            (OnDealloc(t, size) /\ TRACE_ALLOCS /\ size > ALLOC_STATS.current)
            => ALLOC_STATS' = [ALLOC_STATS EXCEPT !.current = 0]]_vars

\* C7: a hook callback (a step that moves no thread inside trace_allocs)
\* taken while TRACE_ALLOCS is false changes neither ALLOC_STATS nor the flag.
C7_NoOpOutsideSession ==
    [][(~TRACE_ALLOCS /\ pc' = pc)
       => (ALLOC_STATS' = ALLOC_STATS /\ TRACE_ALLOCS' = TRACE_ALLOCS)]_vars

\* a hook callback has run outside a session, after a session had recorded
C7_Witness ==
    /\ skipped
    /\ ~TRACE_ALLOCS
    /\ hooks > 0

\* C8 (as claimed): the end of trace_allocs leaves the accumulator all-zero
\* and the flag Idle, so that no count recorded while the flag was set is
\* missing from the snapshot.
C8_StopLeavesZero ==
    [][\A t \in Threads :
          store_false(t) => (ALLOC_STATS' = DefaultStats /\ ~TRACE_ALLOCS')]_vars

\* C9 (as claimed): when every on_alloc call so far started after a session
\* was acquired and returned before that session's mem::replace (calls.clean),
\* the snapshot counts each of the window's calls exactly once: total_num is
\* their number and total_size the sum of their sizes.
C9_EveryAllocCounted ==
    \A t \in Threads :
        (pc[t] = "store" /\ calls.clean)
        => /\ stats[t].total_num = calls.done % UsizeMod
           /\ stats[t].total_size = calls.bytes % UsizeMod

\* C10 (as claimed): a trace_allocs call that acquired the slot and whose
\* closure has finished, by return or by unwinding, has stored false: once
\* no thread is inside a session the flag is clear.
C10_ReleaseUnconditional ==
    (\A t \in Threads : ~InSession(t)) => ~TRACE_ALLOCS

\* ------------------------------------------------------------- thresholds
\* a call of Threshold<usize>::check has returned or panicked
ThresholdRun == outcome # NotRun /\ IsThreshold(threshold)

\* a call of AllocThresholds::check has returned or panicked
AllocThresholdsRun == outcome # NotRun /\ ~IsThreshold(threshold)

\* C11: when ref_value + c fits usize, Threshold::Cap(c).check(value,
\* ref_value) is Ok if and only if value <= ref_value + c, and otherwise it is
\* the ThresholdError that carries the threshold, value and ref_value.
C11_CapCheck ==
    (/\ ThresholdRun
     /\ threshold.kind = "Cap"
     /\ ref_value + threshold.cap < UsizeMod)
    => IF value <= ref_value + threshold.cap
       THEN outcome = Ok
       ELSE outcome = [kind |-> "Err", limit |-> threshold, value |-> value,
                       ref_value |-> ref_value]

\* value = ref_value + c + 1 has failed, for a cap that is not zero
C11_Witness ==
    /\ ThresholdRun
    /\ threshold.kind = "Cap"
    /\ threshold.cap > 0
    /\ ref_value > 0
    /\ value = ref_value + threshold.cap + 1
    /\ outcome.kind = "Err"

\* C12 (as claimed): when ref_value + c exceeds usize::MAX the sum behaves as
\* saturated, so Threshold::Cap(c).check passes for every value.
C12_CapNeverWraps ==
    (/\ ThresholdRun
     /\ threshold.kind = "Cap"
     /\ ref_value + threshold.cap >= UsizeMod)
    => outcome = Ok

\* C13: for ref_value > 0, Threshold::Ratio(num/den).check(value, ref_value)
\* is Ok if and only if value <= ref_value or
\* (value - ref_value) * den <= num * ref_value in exact integers, and
\* otherwise it is the ThresholdError of the call.
C13_RatioCheck ==
    (/\ ThresholdRun
     /\ threshold.kind = "Ratio"
     /\ ref_value > 0)
    => IF \/ value <= ref_value
          \/ (value - ref_value) * threshold.ratio.denom
                 <= threshold.ratio.numer * ref_value
       THEN outcome = Ok
       ELSE outcome = [kind |-> "Err", limit |-> threshold, value |-> value,
                       ref_value |-> ref_value]

\* a value fails whose predecessor, itself above the baseline, passes under
\* a ratio that is not a whole number
C13_Witness ==
    /\ ThresholdRun
    /\ threshold.kind = "Ratio"
    /\ threshold.ratio.denom > 1
    /\ value - 1 > ref_value
    /\ ref_value > 0
    /\ (value - 1 - ref_value) * threshold.ratio.denom
           <= threshold.ratio.numer * ref_value
    /\ outcome.kind = "Err"

\* C14 (as claimed): Threshold::Ratio(r).check(value, 0) with value > 0
\* returns Err(ThresholdError), whatever r is.
C14_RatioZeroBaselineFails ==
    (/\ ThresholdRun
     /\ threshold.kind = "Ratio"
     /\ ref_value = 0
     /\ value > 0)
    => outcome.kind = "Err"

\* C15: Threshold::None.check is Ok for every value and ref_value, and an
\* AllocThresholds with every field at its default passes for every pair of
\* MemoryStats.
C15_NoneAlwaysOk ==
    /\ (ThresholdRun /\ threshold = None) => outcome = Ok
    /\ (AllocThresholdsRun /\ threshold = DefaultAllocThresholds) => outcome = Ok

\* the default thresholds have passed a measurement that is above the
\* baseline in every field
C15_Witness ==
    /\ AllocThresholdsRun
    /\ threshold = DefaultAllocThresholds
    /\ \A i \in 1..Len(Fields) : value[Fields[i]] > ref_value[Fields[i]]
    /\ outcome = Ok

\* the fields whose value exceeds their own baseline by more than their own
\* cap
FailingOf(th, v, r) ==
    {i \in 1..Len(Fields) :
        /\ th[Fields[i]].kind = "Cap"
        /\ v[Fields[i]] > r[Fields[i]] + th[Fields[i]].cap}

FailingFields == FailingOf(threshold, value, ref_value)

FirstFailing == CHOOSE i \in FailingFields : \A j \in FailingFields : i <= j

\* C16: AllocThresholds::check is Ok iff no field fails, and otherwise its
\* error names the first failing field in the order current, peak,
\* total_size, total_num, reallocs, with that field's threshold, value and
\* baseline value.
C16_FirstFailingField ==
    AllocThresholdsRun
    => IF FailingFields = {}
       THEN outcome = Ok
       ELSE outcome =
                [kind |-> "Err",
                 param |-> Fields[FirstFailing],
                 error |-> [kind |-> "Err",
                            limit |-> threshold[Fields[FirstFailing]],
                            value |-> value[Fields[FirstFailing]],
                            ref_value |-> ref_value[Fields[FirstFailing]]]]

\* several fields fail and the error names the first of them, which is not
\* the first field
C16_Witness ==
    /\ AllocThresholdsRun
    /\ Cardinality(FailingFields) >= 2
    /\ outcome.kind = "Err"
    /\ outcome.param = "total_size"

\* ---------------------------------------------------------- baseline paths
\* C20 (as claimed): for a fixed directory, two different identifiers are
\* mapped to different baseline paths.
C20_BaselineIsolation ==
    \A p \in baselines, q \in baselines :
        (p.path.dir = q.path.dir /\ p.id # q.id) => p.path # q.path

\* --------------------------------------------- regression-check orchestration
\* the result the load phase of check_threshold_with_io is claimed to give
\* on the baseline file `file`, `ok` being the result when nothing is wrong
Classified(file, strict_compare, ok, out) ==
    IF file.kind = "absent"
    THEN IF strict_compare THEN out = IO("NotFound") ELSE out = ok
    ELSE IF file.kind = "unreadable" THEN out.kind = "IO"
    ELSE IF file.kind = "garbage" THEN out = Decode
    ELSE IF FailingOf(threshold, value, file.value) # {}
    THEN out.kind = "Regression"
    ELSE out = ok

\* the result of a call that gets as far as the save step: IO when save_new
\* is set and the directory cannot be written, Ok(value) otherwise
AfterSave(d, save_new) ==
    IF save_new /\ ~d.writable THEN IO("PermissionDenied") ELSE OkValue(value)

\* C17 (as claimed): with load_prev set, check_threshold_with_io gives Ok for
\* a missing baseline when strict_compare is false and IO when it is true, IO
\* for any other read failure, Decode for an undecodable file, Regression for
\* a decodable baseline whose threshold check fails, and otherwise Ok.
C17_Classification_Original ==
    [][\A dir \in Dirs, strict_compare \in BOOLEAN, save_new \in BOOLEAN :
          CheckThresholdWithIo(dir, TRUE, strict_compare, save_new)
          => Classified(fs[dir].file, strict_compare, OkValue(value), outcome')]_vars

\* C17 (amended): the result of check_threshold_with_io is one of Ok(value),
\* Regression, IO, Decode; with load_prev set it is classified as claimed,
\* except that where the claim says Ok the result is IO when save_new is set
\* and writing the new baseline fails.
C17_Classification ==
    [][\A dir \in Dirs, load_prev \in BOOLEAN, strict_compare \in BOOLEAN,
          save_new \in BOOLEAN :
          CheckThresholdWithIo(dir, load_prev, strict_compare, save_new)
          => /\ outcome'.kind \in {"Ok", "Regression", "IO", "Decode"}
             /\ load_prev
                => Classified(fs[dir].file, strict_compare,
                              AfterSave(fs[dir], save_new), outcome')]_vars

\* a missing baseline, not strict: the comparison is skipped and the result
\* is the IO error of the save step
C17_Witness ==
    /\ call # <<>>
    /\ call.fn = "check_threshold_with_io"
    /\ call.load_prev
    /\ ~call.strict_compare
    /\ call.save_new
    /\ fs[call.dir].file = Absent
    /\ outcome = IO("PermissionDenied")

\* the file system after a successful save of the measurement into `dir`
Saved(dir) ==
    [fs EXCEPT ![dir] = [exists |-> TRUE, writable |-> TRUE,
                         file |-> to_string(value)]]

\* a run that only writes the new baseline into `dir`
WritesOnly(dir) ==
    IF fs[dir].writable
    THEN outcome' = OkValue(value) /\ fs' = Saved(dir)
    ELSE outcome'.kind = "IO" /\ fs' = fs

\* C18: check_threshold_with_args (the command line naming one test, with
\* --exact): only load_baseline compares strictly against that directory and
\* writes nothing; only save_baseline writes into that directory and compares
\* nothing; neither uses the default directory and writes unless
\* discard_baseline is set; two or more of the three options abort before
\* the closure runs.
C18_ThreeWaySelection ==
    [][\A args \in Argvs :
          (CheckThresholdWithArgs(args, TestId) /\ args.test_n = 1 /\ args.exact)
          => LET l == args.load_baseline # NoDir
                 s == args.save_baseline # NoDir
                 d == args.discard_baseline
             IN IF l /\ ~s /\ ~d
                THEN /\ fs' = fs
                     /\ f_calls' = f_calls + 1
                     /\ Classified(fs[args.load_baseline].file, TRUE,
                                   OkValue(value), outcome')
                ELSE IF ~l /\ s /\ ~d
                THEN /\ f_calls' = f_calls + 1
                     /\ WritesOnly(args.save_baseline)
                ELSE IF ~l /\ ~s /\ ~d
                THEN /\ f_calls' = f_calls + 1
                     /\ WritesOnly(DefaultDir)
                ELSE IF ~l /\ ~s /\ d
                THEN /\ f_calls' = f_calls + 1
                     /\ outcome' = OkValue(value)
                     /\ fs' = fs
                ELSE /\ outcome' = Panicked
                     /\ f_calls' = f_calls
                     /\ fs' = fs]_vars

\* load_baseline and save_baseline were both given: the call has aborted and
\* the closure has not run
C18_Witness ==
    /\ argv # <<>>
    /\ argv.test_n = 1
    /\ argv.exact
    /\ argv.load_baseline # NoDir
    /\ argv.save_baseline # NoDir
    /\ outcome = Panicked
    /\ f_calls = 0

\* a call of check_threshold, check_threshold_with_str or
\* check_threshold_with_io has returned
OrchestrationRun ==
    /\ call # <<>>
    /\ call.fn \in {"check_threshold", "check_threshold_with_str",
                    "check_threshold_with_io"}
    /\ outcome # NotRun

ComparedWith ==
    IF call.fn = "check_threshold" THEN ref_value
    ELSE IF call.fn = "check_threshold_with_str" THEN call.baseline.value
    ELSE fs[call.dir].file.value

\* the error of a failed check: it names a field and carries that field's
\* threshold, observed value and baseline value, nothing else
IsViolation(e) ==
    /\ DOMAIN e = {"kind", "error", "param"}
    /\ e.error = [kind |-> "Err", limit |-> threshold[e.param],
                  value |-> value[e.param],
                  ref_value |-> ComparedWith[e.param]]

HookOf(fn) ==
    IF fn = "alloc" THEN "on_alloc"
    ELSE IF fn = "dealloc" THEN "on_dealloc"
    ELSE IF fn = "alloc_zeroed" THEN "on_alloc_zeroed"
    ELSE "on_realloc"

\* the Layout argument of a GlobalAlloc method call
LayoutOf(c) == IF c.fn \in {"dealloc", "realloc"} THEN c.args[2] ELSE c.args[1]

\* C21: a call of alloc, dealloc, alloc_zeroed or realloc of TracingAllocator
\* has called the wrapped allocator exactly once, with its own arguments, has
\* returned exactly what the wrapped allocator returned (null included), and
\* has invoked exactly one hook, the one of the method, after the wrapped
\* call, with the pointer(s), the requested size(s) and the alignment.
C21_Observational ==
    alloc_call # NoCall
    => LET c == alloc_call
           inner == c.trace[1]
           h == c.trace[2]
       IN /\ Len(c.trace) = 2
          /\ inner.who = "inner"
          /\ inner.fn = c.fn
          /\ inner.args = c.args
          /\ c.ret = inner.result
          /\ h.who = "hook"
          /\ h.fn = HookOf(c.fn)
          /\ h.args =
                IF c.fn = "realloc"
                THEN <<c.args[1], inner.result, LayoutOf(c).size, c.args[3],
                       LayoutOf(c).align>>
                ELSE IF c.fn = "dealloc"
                THEN <<c.args[1], LayoutOf(c).size, LayoutOf(c).align>>
                ELSE <<inner.result, LayoutOf(c).size, LayoutOf(c).align>>

\* the wrapped allocator has failed: alloc has returned null and has told
\* the hook so
C21_Witness ==
    /\ alloc_call.fn = "alloc"
    /\ alloc_call.ret = "null"
    /\ alloc_call.trace[2].args[1] = "null"
    /\ TRACE_ALLOCS

\* C25: inside a session the realloc hook has exactly the effect of
\* reallocs += 1, then on_dealloc(old_size), then on_alloc(new_size), whether
\* the block moved or not: total_num grows by 1, total_size by new_size,
\* current becomes saturating(current - old_size) + new_size and peak is
\* raised to at least that.
C25_ReallocAsDeallocAlloc ==
    [][\A new_size \in {1, LayoutSize}, new_pointer \in Pointers :
          (Realloc(Owner, "p", Block, new_size, new_pointer) /\ TRACE_ALLOCS)
          => LET counted == [ALLOC_STATS EXCEPT !.reallocs = @ + 1]
                 cur == saturating_sub(ALLOC_STATS.current, Block.size) + new_size
             IN /\ ALLOC_STATS' = on_alloc(on_dealloc(counted, TRUE, Block.size),
                                           TRUE, new_size)
                /\ ALLOC_STATS'.reallocs = ALLOC_STATS.reallocs + 1
                /\ ALLOC_STATS'.total_num = ALLOC_STATS.total_num + 1
                /\ ALLOC_STATS'.total_size = ALLOC_STATS.total_size + new_size
                /\ ALLOC_STATS'.current = cur
                /\ ALLOC_STATS'.peak = Max(ALLOC_STATS.peak, cur)]_vars

\* a block of the session has been shrunk in place
C25_Witness ==
    /\ TRACE_ALLOCS
    /\ alloc_call.fn = "realloc"
    /\ alloc_call.ret = alloc_call.args[1]
    /\ ALLOC_STATS = [current |-> 1, peak |-> LayoutSize,
                      total_size |-> LayoutSize + 1, total_num |-> 2,
                      reallocs |-> 1]

\* C22: bench_internal called with iters < 20, or with iters / wu_cd_iters
\* <= 3 (or with no divisor at all), has panicked without having executed
\* the closure and without a PerfStats; whenever it runs, the trimmed region
\* iters - 2 * wu_cd_iters holds at least one sample.
C22_FailFast ==
    bench.fn = "bench_internal"
    => /\ (\/ bench.iters < 20
           \/ bench.wu_cd_iters = 0
           \/ bench.iters \div bench.wu_cd_iters <= 3)
          => /\ bench.at = "panicked"
             /\ f_calls = 0
             /\ outcome = Panicked
       /\ bench.at # "panicked" => bench.iters - 2 * bench.wu_cd_iters >= 1

\* enough iterations, but too many of them warm-up and cool-down: the call
\* has panicked before the first iteration
C22_Witness ==
    /\ bench.fn = "bench_internal"
    /\ bench.iters >= 20
    /\ bench.wu_cd_iters > 0
    /\ bench.iters \div bench.wu_cd_iters = 3
    /\ bench.at = "panicked"
    /\ f_calls = 0

\* C23: a bench_internal that runs has executed the closure once per
\* iteration so far, has handed to the accumulator the samples of the
\* iterations wu_cd_iters .. iters - wu_cd_iters - 1 reached so far, in that
\* order and no other, and when the result is produced the closure has run
\* iters times and the accumulator's n is iters - 2 * wu_cd_iters.
C23_TrimmedSamples ==
    (bench.fn = "bench_internal" /\ bench.at # "panicked")
    => LET wu == bench.wu_cd_iters
           upto == IF bench.i < bench.iters - wu THEN bench.i ELSE bench.iters - wu
           len == IF upto > wu THEN upto - wu ELSE 0
       IN /\ f_calls = bench.i
          /\ bench.kept = [k \in 1..len |-> wu + k - 1]
          /\ perf.n = Len(bench.kept)
          /\ bench.at = "done"
             => /\ f_calls = bench.iters
                /\ perf.n = bench.iters - 2 * wu
                /\ outcome.kind = "PerfStats"

\* bench_iters(21, f) has produced its result: 21 executions, 17 samples
C23_Witness ==
    /\ bench.fn = "bench_internal"
    /\ bench.at = "done"
    /\ bench.iters = MinIters + 1
    /\ bench.wu_cd_iters = 2
    /\ f_calls = MinIters + 1
    /\ perf.n = MinIters - 3
    /\ bench.kept[1] = 2

\* C24: after any samples Stats holds their number, their mean and the sum
\* of their squared distances to the mean (Welford's recurrence); after the
\* samples 1, 2, ..., N it holds n = N, mean = (N + 1) / 2 and
\* q / n = (N^2 - 1) / 12.
C24_Welford ==
    (bench.fn = "Stats" /\ bench.source = Stats_new /\ fed # <<>>)
    => LET N == Len(fed)
           sum[k \in 0..N] == IF k = 0 THEN Rat(0, 1) ELSE RatAdd(sum[k - 1], fed[k])
           sq[k \in 0..N] ==
               IF k = 0 THEN Rat(0, 1)
               ELSE RatAdd(sq[k - 1], RatMul(RatSub(fed[k], perf.mean),
                                             RatSub(fed[k], perf.mean)))
       IN /\ perf.n = N
          /\ perf.mean = RatMul(sum[N], Rat(1, N))
          /\ perf.q = sq[N]
          /\ fed = [k \in 1..N |-> Rat(k, 1)]
             => /\ perf.mean = Rat(N + 1, 2)
                /\ RatMul(perf.q, Rat(1, perf.n)) = Rat(N * N - 1, 12)

\* the samples 1, 2, ..., MaxSamples have been fed
C24_Witness ==
    /\ bench.fn = "Stats"
    /\ fed = [k \in 1..MaxSamples |-> Rat(k, 1)]
    /\ perf.n = MaxSamples
    /\ perf.q # Rat(0, 1)

\* C26 as stated: the conversion fails on a negative mean and on a mean whose
\* whole microseconds do not fit, and otherwise produces floor(mean * 10^6).
C26_Floor ==
    (bench.fn = "Stats" /\ outcome # NotRun)
    => LET m == perf.mean
           fl == m.num \div (m.den * NANOS_PER_MICRO)
       IN outcome = IF m.num < 0 \/ fl > U64Max THEN Panicked ELSE PerfStats(fl)

\* C26: the conversion never wraps and never cuts high bits: it fails on a
\* negative mean and on a mean whose microseconds do not fit, and otherwise
\* produces the whole microseconds of the mean taken to whole nanoseconds:
\* floor(mean * 10^6), or, where the library rounds to the nearest
\* nanosecond, one more when the mean is at most half a nanosecond below the
\* next whole microsecond.
C26_Conversion ==
    (bench.fn = "Stats" /\ outcome # NotRun)
    => LET m == perf.mean
           fl == m.num \div (m.den * NANOS_PER_MICRO)
           near == 2 * m.num >= m.den * (2 * (fl + 1) * NANOS_PER_MICRO - 1)
           micros == IF call.round /\ near THEN fl + 1 ELSE fl
       IN outcome = IF m.num < 0 \/ micros > U64Max THEN Panicked
                    ELSE PerfStats(micros)

\* a mean of one microsecond more than fits has been converted: no PerfStats
C26_Witness ==
    /\ bench.fn = "Stats"
    /\ call # <<>>
    /\ perf.mean = Rat((U64Max + 1) * NANOS_PER_MICRO, 1)
    /\ outcome = Panicked

\* C27: a call of check_threshold_with_io (whatever its flags, load_prev
\* and save_new both set included) or of mem_bench that returns Regression,
\* Decode or an IO error leaves every baseline file as it was.
C27_RegressionKeepsBaseline ==
    [][(/\ outcome = NotRun
        /\ outcome' # NotRun
        /\ call'.fn \in {"check_threshold_with_io", "mem_bench"}
        /\ outcome'.kind \in {"Regression", "IO", "Decode"})
       => fs' = fs]_vars

\* check_threshold_with_io with load_prev and save_new has found a
\* regression against a baseline in a writable directory: the baseline is
\* still the old measurement
C27_Witness ==
    /\ call # <<>>
    /\ call.fn = "check_threshold_with_io"
    /\ call.load_prev
    /\ call.save_new
    /\ outcome.kind = "Regression"
    /\ fs[call.dir].writable
    /\ fs[call.dir].file.kind = "toml"
    /\ fs[call.dir].file.value # value

\* C28: check_threshold_with_args without --load-baseline (no option, only
\* --save-baseline, or only --discard-baseline) returns neither Regression
\* nor Decode, and its result and the files it leaves are those of the same
\* call with no baseline file anywhere and with the strictest threshold:
\* nothing is read and nothing is compared.
C28_CompareOnlyOnLoad ==
    [][\A args \in Argvs :
          (CheckThresholdWithArgs(args, TestId) /\ args.load_baseline = NoDir)
          => /\ outcome'.kind \notin {"Regression", "Decode"}
             /\ \/ outcome' = Panicked /\ fs' = fs /\ f_calls' = f_calls
                \/ LET dir == IF args.save_baseline # NoDir
                              THEN args.save_baseline ELSE DefaultDir
                       empty == [d \in Dirs |-> [fs[d] EXCEPT !.file = Absent]]
                       strictest == [f \in DOMAIN DefaultAllocThresholds |-> Cap(0)]
                       r == check_threshold_with_io(
                                dir, FALSE, FALSE, ~args.discard_baseline,
                                strictest, value, empty, overflow_checks)
                   IN /\ f_calls' = f_calls + 1
                      /\ outcome' = r.result
                      /\ \A d \in Dirs :
                            \/ fs'[d] = fs[d]
                            \/ d = dir /\ fs'[d] = r.fs[d]]_vars

\* --discard-baseline alone, a baseline in the default directory against
\* which the measurement is a regression: the call has returned Ok
C28_Witness ==
    /\ call # <<>>
    /\ call.fn = "check_threshold_with_args"
    /\ argv.load_baseline = NoDir
    /\ argv.save_baseline = NoDir
    /\ argv.discard_baseline
    /\ fs[DefaultDir].file.kind = "toml"
    /\ compare(threshold, value, fs[DefaultDir].file.value, overflow_checks).kind
          = "Regression"
    /\ outcome = OkValue(value)

\* C29: with one on_realloc call as the only allocator activity, every
\* snapshot a trace_allocs call takes holds either nothing of the event or
\* all three of its updates, and no update lands in the accumulator of a
\* later session.
C29_AllOrNothing ==
    realloc_call # NoCall
    => /\ \A k \in 1..Len(realloc_call.landed) : realloc_call.landed[k] # "next"
       /\ \A t \in Threads :
             pc[t] = "store"
             => stats[t] \in {DefaultStats,
                              on_realloc(DefaultStats, TRUE, realloc_call.old_size,
                                         realloc_call.new_size)}

\* C30: a thread that has called trace_allocs from inside its closure stays
\* in the nested call's loop for ever: while it is there the flag is true,
\* its next step is a failed compare_exchange, so the nested call neither
\* acquires the flag nor returns, and the outer call does not get to its
\* mem::replace and store(false).
C30_NotReentrant ==
    [][\A t \in Threads :
          pc[t] \in Nested
          => /\ TRACE_ALLOCS
             /\ TRACE_ALLOCS'
             /\ pc'[t] \in Nested]_vars

\* the nested call has tried the flag and failed, while the other thread
\* waits for the same flag
C30_Witness ==
    \E t \in Threads :
        /\ pc[t] = "nested_wait"
        /\ \E u \in Threads \ {t} : pc[u] = "wait"

\* C31: inside a session an alloc or alloc_zeroed call whose wrapped
\* allocator returns null returns null, has its hook invoked with the null
\* pointer and the requested size S, and is counted like a successful one:
\* current and total_size grow by S, total_num by 1, peak is raised to the
\* new current if that is larger, reallocs stays.
C31_FailedAllocCounted ==
    [][\A layout \in Layouts :
          (/\ TRACE_ALLOCS
           /\ \/ Alloc(Owner, layout, "null")
              \/ AllocZeroed(Owner, layout, "null"))
          => /\ alloc_call'.ret = "null"
             /\ alloc_call'.trace[2].who = "hook"
             /\ alloc_call'.trace[2].args[1] = "null"
             /\ alloc_call'.trace[2].args[2] = layout.size
             /\ ALLOC_STATS' = on_alloc(ALLOC_STATS, TRUE, layout.size)
             /\ ALLOC_STATS'.current = ALLOC_STATS.current + layout.size
             /\ ALLOC_STATS'.total_size = ALLOC_STATS.total_size + layout.size
             /\ ALLOC_STATS'.total_num = ALLOC_STATS.total_num + 1
             /\ ALLOC_STATS'.peak = Max(ALLOC_STATS.peak, ALLOC_STATS'.current)
             /\ ALLOC_STATS'.reallocs = ALLOC_STATS.reallocs]_vars

\* a failed alloc_zeroed of the largest block is all the session has seen:
\* it is in every counter
C31_Witness ==
    /\ TRACE_ALLOCS
    /\ alloc_call.fn = "alloc_zeroed"
    /\ alloc_call.ret = "null"
    /\ ALLOC_STATS = [current |-> LayoutSize, peak |-> LayoutSize,
                      total_size |-> LayoutSize, total_num |-> 1,
                      reallocs |-> 0]

====
